---- MODULE Spec2Model ----
(***************************************************************************)
(* Model of the vibestar document pipeline, project and chat handlers.     *)
(*                                                                         *)
(* Tables of the relational store keep the names of app/lib/db/schema.ts   *)
(* (project, document, documentChunk, conversation, message); the vector   *)
(* store keeps the name of its binding, VECTOR_INDEX.  Every handler is a  *)
(* sequence of steps, one per awaited access to the database, the vector   *)
(* store or a model, so that concurrent requests and the background tasks  *)
(* started with waitUntil interleave exactly where the code yields.        *)
(*                                                                         *)
(* A text is modelled by its length n: it stands for the string of n       *)
(* pairwise distinct characters, and a slice of it by its zero-based,      *)
(* half-open bounds <<from, to>>, so two slices are equal exactly when     *)
(* they hold the same characters.                                          *)
(*                                                                         *)
(* The library functions chunkText, generateEmbeddings and                 *)
(* buildSystemPromptWithContext are also run on their own, statement by    *)
(* statement, in the variable fn: its record holds the arguments, the      *)
(* locals and the position of the one call evaluated.                      *)
(*                                                                         *)
(* The response stream of a chat request is followed chunk by chunk in     *)
(* the stream field of the request, with texts as sequences of code        *)
(* points and chunks as sequences of bytes.  The variable component holds  *)
(* the state of the Chat component of one browser tab.                     *)
(***************************************************************************)
EXTENDS Integers, Sequences, FiniteSets, TLC

VARIABLES env, project, document, documentChunk, conversation, message,
          VECTOR_INDEX, upload, task, reindex, del, projects, chat, read, fn,
          component

tables == <<project, document, documentChunk>>
chatVars == <<conversation, message, chat, read>>
vars == <<env, project, document, documentChunk, conversation, message,
          VECTOR_INDEX, upload, task, reindex, del, projects, chat, read, fn,
          component>>

----------------------------------------------------------------------------
(* Bounds of the model *)

\* the documents uploaded and the requests that arrive in one behaviour
MaxDocs == 1
MaxRequests == 2
\* the chat requests that arrive in one behaviour
MaxChats == 1

(* Program constants *)

CHUNK_SIZE == 500
CHUNK_OVERLAP == 50
ROW_STRIDE == 450
ROW_WIDTH == 500
TITLE_LENGTH == 50
HISTORY_LIMIT == 10
RAG_TOP_K == 3
VECTORIZE_DIMENSIONS == 1536

Users == {"alice", "bob"}
DocIds == 1..MaxDocs
ReindexIds == 1..MaxRequests
DeleteIds == 1..MaxRequests
ProjectRequestIds == 1..MaxRequests
\* one request more than the chat specifications start: the component
\* specification needs a request after the first
ChatIds == 1..(MaxChats + 1)
ReadIds == 1..MaxRequests

(* Length of the uploaded texts: three chunks, the last one short *)
Contents == {1000}

Min(a, b) == IF a < b THEN a ELSE b

----------------------------------------------------------------------------
(* Identifiers *)

NoProject == [by |-> "none", n |-> 0]
ProjectId(by, n) == [by |-> by, n |-> n]

NoConversation == [req |-> 0]
\* the conversation id and the message ids request k draws with crypto.randomUUID()
ConversationId(k) == [req |-> k]
MessageId(k, role) == [req |-> k, role |-> role]

NoVector == [doc |-> 0, idx |-> 0]
\* chunkId = `${documentId}-chunk-${i}`, vectorId = `vec-${chunkId}`
ChunkId(d, i) == [doc |-> d, idx |-> i, uuid |-> FALSE]
VectorId(d, i) == [doc |-> d, idx |-> i]
\* the id of the dummy chunk of the local development path: crypto.randomUUID()
RandomChunkId(d) == [doc |-> d, idx |-> 0, uuid |-> TRUE]

UploadTask(d) == [kind |-> "upload", n |-> d]
ReindexTask(k) == [kind |-> "reindex", n |-> k]
TaskIds == {UploadTask(d) : d \in DocIds} \cup {ReindexTask(k) : k \in ReindexIds}

----------------------------------------------------------------------------
(* Pure functions *)

\* String.prototype.slice(from, to) for 0 <= from, 0 <= to
Slice(n, from, to) ==
    LET f == Min(from, n)
        t == Min(to, n)
    IN  IF t <= f THEN <<0, 0>> ELSE <<f, t>>

RECURSIVE ChunkLoop(_, _, _, _, _)
ChunkLoop(text, start, chunks, chunkSize, overlap) ==
    IF start < text
    THEN LET end == Min(start + chunkSize, text)
             pushed == Append(chunks, Slice(text, start, end))
             next == start + (chunkSize - overlap)
         IN  IF next >= text THEN pushed
             ELSE ChunkLoop(text, next, pushed, chunkSize, overlap)
    ELSE chunks

chunkText(text, chunkSize, overlap) == ChunkLoop(text, 0, <<>>, chunkSize, overlap)

\* the content the routes store in a chunk row
RowContent(text, index) ==
    Slice(text, index * ROW_STRIDE, Min((index + 1) * ROW_WIDTH, text))

----------------------------------------------------------------------------
(* Database helpers *)

ChunksOf(d) == {c \in DOMAIN documentChunk : documentChunk[c].documentId = d}

\* mutant: the null vector ids are not filtered out
VectorIdsOf_Unfiltered(d) == {documentChunk[c].vectorId : c \in ChunksOf(d)}

\* chunks.map((c) => c.vectorId).filter((id) => id !== null)
VectorIdsOf(d) == {documentChunk[c].vectorId : c \in ChunksOf(d)} \ {NoVector}

DefaultProjects(u) ==
    {p \in DOMAIN project : project[p].userId = u /\ project[p].isDefault}

Restrict(f, S) == [x \in S |-> f[x]]

\* db.update(document).set({ status }).where(eq(document.id, d))
SetStatus(d, s) ==
    IF d \in DOMAIN document
    THEN [document EXCEPT ![d].status = s]
    ELSE document

Respond(r, code, err) == [r EXCEPT !.pc = "done", !.status = code, !.error = err]

----------------------------------------------------------------------------
(* Initial state *)

IdleUpload ==
    [pc |-> "idle", session |-> "", body |-> "", userId |-> "", named |-> NoProject,
     projectId |-> NoProject, content |-> 0, status |-> 0, error |-> ""]
IdleTask == [pc |-> "idle", doc |-> 0, content |-> 0, raised |-> "none"]
IdleReindex ==
    [pc |-> "idle", session |-> "", userId |-> "", named |-> 0, doc |-> 0,
     content |-> 0, vectorIds |-> {}, threw |-> FALSE, status |-> 0, error |-> ""]
IdleDelete ==
    [pc |-> "idle", session |-> "", userId |-> "", named |-> 0, doc |-> 0,
     rows |-> {}, vectorIds |-> {}, calls |-> <<>>, threw |-> FALSE,
     status |-> 0, error |-> ""]

IdleProjects ==
    [pc |-> "idle", session |-> "", op |-> "", userId |-> "", named |-> NoProject,
     id |-> NoProject, defaultProject |-> NoProject, status |-> 0, error |-> ""]
\* the response stream of a chat request before it exists
NoStream == [state |-> "none", source |-> <<>>, relayed |-> <<>>, fullResponse |-> <<>>]
IdleChat ==
    [pc |-> "idle", session |-> "", userId |-> "", message |-> 0,
     conversationId |-> NoConversation, useRag |-> FALSE, projectId |-> NoProject,
     chatMessages |-> <<>>, services |-> {}, failed |-> {}, contexts |-> {},
     systemPrompt |-> "base", stream |-> NoStream, status |-> 0, error |-> ""]
\* no library function is being evaluated on its own
IdleFn == [name |-> "none"]
\* the Chat component after mounting without a conversation: useState values,
\* the request of the running handleSubmit with the conversationId of its
\* closure, and the requests submitted since the last New Chat
IdleComponent ==
    [conversationId |-> NoConversation, isLoading |-> FALSE, request |-> 0,
     carried |-> NoConversation, reading |-> FALSE, session |-> <<>>]
IdleRead ==
    [pc |-> "idle", session |-> "", api |-> "", userId |-> "",
     conversationId |-> NoConversation, rows |-> {}, messages |-> <<>>,
     status |-> 0, error |-> ""]

Envs ==
    {[variant |-> "route", isLocalDev |-> FALSE],
     [variant |-> "route", isLocalDev |-> TRUE],
     [variant |-> "hono", isLocalDev |-> FALSE]}

\* empty tables, an empty vector index, no request yet
Init ==
    /\ env \in Envs
    /\ component = IdleComponent
    /\ fn = IdleFn
    /\ project = <<>>
    /\ document = <<>>
    /\ documentChunk = <<>>
    /\ conversation = <<>>
    /\ message = <<>>
    /\ VECTOR_INDEX = <<>>
    /\ upload = [d \in DocIds |-> IdleUpload]
    /\ task = [t \in TaskIds |-> IdleTask]
    /\ reindex = [k \in ReindexIds |-> IdleReindex]
    /\ del = [k \in DeleteIds |-> IdleDelete]
    /\ projects = [k \in ProjectRequestIds |-> IdleProjects]
    /\ chat = [k \in ChatIds |-> IdleChat]
    /\ read = [k \in ReadIds |-> IdleRead]

----------------------------------------------------------------------------
(* POST /api/documents: the upload handler *)

\* the bodies of an upload request: well-formed; JSON that does not parse; a
\* JSON object without title or content; multipart without the file part; the
\* JSON value null; a multipart body that formData() cannot parse
UploadBodies ==
    {"ok", "invalid_json", "missing_fields", "no_file", "json_null", "bad_form"}

\* the bodies on which the handler throws outside its try block: body.title of
\* null, and the rejected formData()
ThrowingBodies == {"json_null", "bad_form"}

BodyError(body) ==
    CASE body = "invalid_json" -> "Invalid JSON"
      [] body = "missing_fields" -> "Title and content are required"
      [] body = "no_file" -> "File is required"
      [] OTHER -> ""

Sessions == {"valid", "none"}

\* mutant: the session check lets every request pass
Authenticated_Always(session) == session \in Sessions

\* the session check every handler starts with
Authenticated(session) == session = "valid"

\* the project ids a request may name: every existing one and one that does not exist
NamedProjects == DOMAIN project \cup {ProjectId("unknown", 0)}

\* Authentication, body parsing and, in the project variant, the select of the
\* default project or of the named project.
UploadRequest(d, u, session, body, pid, text) ==
    /\ upload[d].pc = "idle"
    /\ \A e \in DocIds : e < d => upload[e].pc # "idle"
    /\ upload' = [upload EXCEPT ![d] =
          LET r == [@ EXCEPT !.session = session, !.body = body,
                             !.named = IF env.variant = "hono" /\ body = "ok"
                                       THEN pid ELSE NoProject]
          IN
          IF ~Authenticated(session)
          THEN Respond(r, 401, "Unauthorized")
          ELSE IF body \in ThrowingBodies
          THEN Respond(r, 500, "TypeError")
          ELSE IF body # "ok"
          THEN Respond(r, 400, BodyError(body))
          ELSE IF env.variant = "route"
          THEN [r EXCEPT !.pc = "insert", !.userId = u, !.content = text]
          ELSE IF pid = NoProject
          THEN [r EXCEPT !.pc = "default", !.userId = u, !.content = text]
          ELSE IF pid \in DOMAIN project /\ project[pid].userId = u
          THEN [r EXCEPT !.pc = "insert", !.userId = u, !.content = text,
                         !.projectId = pid]
          ELSE Respond([r EXCEPT !.userId = u], 404, "Project not found")]
    /\ UNCHANGED <<projects, chatVars, env, fn, component, tables, VECTOR_INDEX, task, reindex, del>>

\* select the default project: use the one found, or insert a new one
UploadDefaultProject(d) ==
    /\ upload[d].pc = "default"
    /\ LET u == upload[d].userId IN
       \/ /\ DefaultProjects(u) # {}
          /\ \E p \in DefaultProjects(u) :
                upload' = [upload EXCEPT ![d].pc = "insert", ![d].projectId = p]
          /\ UNCHANGED project
       \/ /\ DefaultProjects(u) = {}
          /\ upload' = [upload EXCEPT ![d].pc = "create_default"]
          /\ UNCHANGED project
    /\ UNCHANGED <<projects, chatVars, env, fn, component, document, documentChunk, VECTOR_INDEX, task, reindex, del>>

UploadCreateDefault(d) ==
    /\ upload[d].pc = "create_default"
    /\ LET p == ProjectId("upload", d) IN
       /\ project' = project @@ (p :> [userId |-> upload[d].userId, isDefault |-> TRUE])
       /\ upload' = [upload EXCEPT ![d].pc = "insert", ![d].projectId = p]
    /\ UNCHANGED <<projects, chatVars, env, fn, component, document, documentChunk, VECTOR_INDEX, task, reindex, del>>

\* the pipeline a background task starts with: the local development path of
\* app/routes/api.documents.ts, or processDocument
FirstStep == IF env.isLocalDev THEN "local_chunk" ELSE "embed"

\* db.insert(document), waitUntil(...) and the 201 response; the insert throws
\* when the project named by the row is gone, and nothing catches it
UploadInsert(d) ==
    /\ upload[d].pc = "insert"
    /\ IF upload[d].projectId = NoProject \/ upload[d].projectId \in DOMAIN project
       THEN /\ document' = document @@
                  (d :> [userId |-> upload[d].userId,
                         projectId |-> upload[d].projectId,
                         content |-> upload[d].content, status |-> "processing"])
            /\ task' = [task EXCEPT ![UploadTask(d)] =
                  [pc |-> FirstStep, doc |-> d, content |-> upload[d].content,
                   raised |-> "none"]]
            /\ upload' = [upload EXCEPT ![d] = Respond(@, 201, "")]
       ELSE /\ upload' = [upload EXCEPT ![d] =
                  Respond(@, 500, "Internal Server Error")]
            /\ UNCHANGED <<document, task>>
    /\ UNCHANGED <<projects, chatVars, env, fn, component, project, documentChunk, VECTOR_INDEX, reindex, del>>

----------------------------------------------------------------------------
(* The background task: processDocument, the chunk rows, the status *)

\* mutant: the catch block is skipped and the task goes on to the ready update
Raise_Swallowed(t, step) == [task EXCEPT ![t].pc = "ready", ![t].raised = step]

Raise(t, step) == [task EXCEPT ![t].pc = "failed", ![t].raised = step]

\* generateEmbeddings(env.AI, chunks): returns or throws
TaskEmbed(t, ok) ==
    /\ task[t].pc = "embed"
    /\ task' = IF ok THEN [task EXCEPT ![t].pc = "store"] ELSE Raise(t, "embed")
    /\ UNCHANGED <<projects, chatVars, env, fn, component, tables, VECTOR_INDEX, upload, reindex, del>>

\* the vectors processDocument builds, one per chunk
Vectors(d, text) ==
    LET chunks == chunkText(text, CHUNK_SIZE, CHUNK_OVERLAP) IN
    [v \in {VectorId(d, i - 1) : i \in 1..Len(chunks)} |->
        [documentId |-> d, chunkIndex |-> v.idx, content |-> chunks[v.idx + 1]]]

\* storeVectors(env.VECTOR_INDEX, vectors): upsert, or throw
TaskStore(t, ok) ==
    /\ task[t].pc = "store"
    /\ LET new == Vectors(task[t].doc, task[t].content) IN
       IF DOMAIN new = {}
       THEN /\ task' = [task EXCEPT ![t].pc = "chunks"]
            /\ UNCHANGED VECTOR_INDEX
       ELSE IF ok
       THEN /\ VECTOR_INDEX' = new @@ VECTOR_INDEX
            /\ task' = [task EXCEPT ![t].pc = "chunks"]
       ELSE /\ task' = Raise(t, "upsert")
            /\ UNCHANGED VECTOR_INDEX
    /\ UNCHANGED <<projects, chatVars, env, fn, component, tables, upload, reindex, del>>

\* the chunk rows the routes build from processDocument's result
ChunkRows(d, text) ==
    LET count == Len(chunkText(text, CHUNK_SIZE, CHUNK_OVERLAP)) IN
    [c \in {ChunkId(d, i) : i \in 0..(count - 1)} |->
        [documentId |-> d, chunkIndex |-> c.idx,
         content |-> RowContent(text, c.idx), vectorId |-> VectorId(d, c.idx)]]

\* an insert fails on a primary key that exists or a document that does not
CanInsert(rows) ==
    /\ DOMAIN rows \cap DOMAIN documentChunk = {}
    /\ \A c \in DOMAIN rows : rows[c].documentId \in DOMAIN document

\* db.insert(documentChunk).values(chunks)
TaskInsertChunks(t) ==
    /\ task[t].pc = "chunks"
    /\ LET rows == ChunkRows(task[t].doc, task[t].content) IN
       IF DOMAIN rows = {}
       THEN /\ task' = [task EXCEPT ![t].pc = "ready"]
            /\ UNCHANGED documentChunk
       ELSE IF CanInsert(rows)
       THEN /\ documentChunk' = rows @@ documentChunk
            /\ task' = [task EXCEPT ![t].pc = "ready"]
       ELSE /\ task' = Raise(t, "insert")
            /\ UNCHANGED documentChunk
    /\ UNCHANGED <<projects, chatVars, env, fn, component, project, document, VECTOR_INDEX, upload, reindex, del>>

\* local development: one dummy chunk row without a vector
TaskLocalChunk(t) ==
    /\ task[t].pc = "local_chunk"
    /\ LET d == task[t].doc
           rows == RandomChunkId(d) :>
              [documentId |-> d, chunkIndex |-> 0,
               content |-> Slice(task[t].content, 0, ROW_WIDTH),
               vectorId |-> NoVector]
       IN IF CanInsert(rows)
          THEN /\ documentChunk' = rows @@ documentChunk
               /\ task' = [task EXCEPT ![t].pc = "ready"]
          ELSE /\ task' = Raise(t, "insert")
               /\ UNCHANGED documentChunk
    /\ UNCHANGED <<projects, chatVars, env, fn, component, project, document, VECTOR_INDEX, upload, reindex, del>>

\* the status update that ends the try block
TaskSetReady(t) ==
    /\ task[t].pc = "ready"
    /\ document' = SetStatus(task[t].doc, "ready")
    /\ task' = [task EXCEPT ![t].pc = "done"]
    /\ UNCHANGED <<projects, chatVars, env, fn, component, project, documentChunk, VECTOR_INDEX, upload, reindex, del>>

\* the catch block: log, set the status, swallow the exception
TaskSetFailed(t) ==
    /\ task[t].pc = "failed"
    /\ document' = SetStatus(task[t].doc, "failed")
    /\ task' = [task EXCEPT ![t].pc = "done"]
    /\ UNCHANGED <<projects, chatVars, env, fn, component, project, documentChunk, VECTOR_INDEX, upload, reindex, del>>

\* the status update that ends the try block throws: the catch block runs
TaskSetReadyThrows(t) ==
    /\ task[t].pc = "ready"
    /\ task' = Raise(t, "update")
    /\ UNCHANGED <<projects, chatVars, env, fn, component, tables, VECTOR_INDEX, upload, reindex, del>>

\* the status update of the catch block throws: nothing handles it, the task
\* ends and the status stays as it was
TaskSetFailedThrows(t) ==
    /\ task[t].pc = "failed"
    /\ task' = [task EXCEPT ![t].pc = "done", ![t].raised = "unhandled"]
    /\ UNCHANGED <<projects, chatVars, env, fn, component, tables, VECTOR_INDEX, upload, reindex, del>>

----------------------------------------------------------------------------
(* POST /api/documents/reindex (project variant only) *)

ReindexBodies == {"ok", "invalid_json", "missing_id"}

\* authentication, body parsing and the select of the document
ReindexRequest(k, u, session, body, d) ==
    /\ env.variant = "hono"
    /\ reindex[k].pc = "idle"
    /\ \A j \in ReindexIds : j < k => reindex[j].pc # "idle"
    /\ reindex' = [reindex EXCEPT ![k] =
          LET r == [@ EXCEPT !.session = session,
                             !.userId = IF Authenticated(session) THEN u ELSE "",
                             !.named = IF body = "ok" THEN d ELSE 0] IN
          IF ~Authenticated(session)
          THEN Respond(r, 401, "Unauthorized")
          ELSE IF body = "invalid_json"
          THEN Respond(r, 400, "Invalid JSON")
          ELSE IF body = "missing_id"
          THEN Respond(r, 400, "documentId is required")
          ELSE IF d \notin DOMAIN document
          THEN Respond(r, 404, "Document not found")
          ELSE IF document[d].userId # u
          THEN Respond(r, 403, "Forbidden")
          ELSE [r EXCEPT !.pc = "chunks", !.doc = d,
                         !.content = document[d].content]]
    /\ UNCHANGED <<projects, chatVars, env, fn, component, tables, VECTOR_INDEX, upload, task, del>>

\* select the chunk rows and keep their non-null vector ids
ReindexSelectChunks(k) ==
    /\ reindex[k].pc = "chunks"
    /\ LET ids == VectorIdsOf(reindex[k].doc) IN
       reindex' = [reindex EXCEPT ![k].vectorIds = ids,
                                  ![k].pc = IF ids = {} THEN "delete_chunks"
                                            ELSE "delete_vectors"]
    /\ UNCHANGED <<projects, chatVars, env, fn, component, tables, VECTOR_INDEX, upload, task, del>>

\* VECTOR_INDEX.deleteByIds(ids)
DeleteByIds(ids) == Restrict(VECTOR_INDEX, DOMAIN VECTOR_INDEX \ ids)

\* deleteDocumentVectors inside try/catch: a failure is logged and ignored
ReindexDeleteVectors(k, ok) ==
    /\ reindex[k].pc = "delete_vectors"
    /\ VECTOR_INDEX' = IF ok THEN DeleteByIds(reindex[k].vectorIds) ELSE VECTOR_INDEX
    /\ reindex' = [reindex EXCEPT ![k].pc = "delete_chunks", ![k].threw = ~ok]
    /\ UNCHANGED <<projects, chatVars, env, fn, component, tables, upload, task, del>>

\* db.delete(documentChunk).where(eq(documentChunk.documentId, documentId))
ReindexDeleteChunks(k) ==
    /\ reindex[k].pc = "delete_chunks"
    /\ documentChunk' =
          Restrict(documentChunk, DOMAIN documentChunk \ ChunksOf(reindex[k].doc))
    /\ reindex' = [reindex EXCEPT ![k].pc = "set_processing"]
    /\ UNCHANGED <<projects, chatVars, env, fn, component, project, document, VECTOR_INDEX, upload, task, del>>

\* the status update, waitUntil(...) and the response
ReindexSetProcessing(k) ==
    /\ reindex[k].pc = "set_processing"
    /\ document' = SetStatus(reindex[k].doc, "processing")
    /\ task' = [task EXCEPT ![ReindexTask(k)] =
          [pc |-> "embed", doc |-> reindex[k].doc, content |-> reindex[k].content,
           raised |-> "none"]]
    /\ reindex' = [reindex EXCEPT ![k] = Respond(@, 200, "")]
    /\ UNCHANGED <<projects, chatVars, env, fn, component, project, documentChunk, VECTOR_INDEX, upload, del>>

----------------------------------------------------------------------------
(* DELETE /api/documents *)

\* mutant: the owner of the document is not compared with the session's user
DeleteRequest_AnyOwner(k, u, session, hasId, d) ==
    /\ del[k].pc = "idle"
    /\ \A j \in DeleteIds : j < k => del[j].pc # "idle"
    /\ del' = [del EXCEPT ![k] =
          LET r == [@ EXCEPT !.session = session,
                             !.userId = IF Authenticated(session) THEN u ELSE "",
                             !.named = IF hasId THEN d ELSE 0] IN
          IF ~Authenticated(session)
          THEN Respond(r, 401, "Unauthorized")
          ELSE IF ~hasId
          THEN Respond(r, 400, "Document ID is required")
          ELSE IF d \notin DOMAIN document
          THEN Respond(r, 404, "Document not found")
          ELSE [r EXCEPT !.pc = "chunks", !.doc = d]]
    /\ UNCHANGED <<projects, chatVars, env, fn, component, tables, VECTOR_INDEX, upload, task, reindex>>

\* authentication, the id parameter and the select of the document
DeleteRequest(k, u, session, hasId, d) ==
    /\ del[k].pc = "idle"
    /\ \A j \in DeleteIds : j < k => del[j].pc # "idle"
    /\ del' = [del EXCEPT ![k] =
          LET r == [@ EXCEPT !.session = session,
                             !.userId = IF Authenticated(session) THEN u ELSE "",
                             !.named = IF hasId THEN d ELSE 0] IN
          IF ~Authenticated(session)
          THEN Respond(r, 401, "Unauthorized")
          ELSE IF ~hasId
          THEN Respond(r, 400, "Document ID is required")
          ELSE IF d \notin DOMAIN document
          THEN Respond(r, 404, "Document not found")
          ELSE IF document[d].userId # u
          THEN Respond(r, 403, "Forbidden")
          ELSE [r EXCEPT !.pc = "chunks", !.doc = d]]
    /\ UNCHANGED <<projects, chatVars, env, fn, component, tables, VECTOR_INDEX, upload, task, reindex>>

\* select the chunk rows and keep their non-null vector ids
DeleteSelectChunks(k) ==
    /\ del[k].pc = "chunks"
    /\ LET ids == VectorIdsOf(del[k].doc) IN
       del' = [del EXCEPT ![k].rows = {documentChunk[c] : c \in ChunksOf(del[k].doc)},
                          ![k].vectorIds = ids,
                          ![k].pc = IF ids = {} THEN "delete_row"
                                    ELSE "delete_vectors"]
    /\ UNCHANGED <<projects, chatVars, env, fn, component, tables, VECTOR_INDEX, upload, task, reindex>>

\* mutant: no try/catch, a failed vector delete ends the request with 500
DeleteVectors_Uncaught(k, ok) ==
    /\ del[k].pc = "delete_vectors"
    /\ VECTOR_INDEX' = IF ok THEN DeleteByIds(del[k].vectorIds) ELSE VECTOR_INDEX
    /\ del' = [del EXCEPT ![k] =
          IF ok
          THEN [@ EXCEPT !.pc = "delete_row", !.calls = Append(@, del[k].vectorIds)]
          ELSE Respond([@ EXCEPT !.calls = Append(@, del[k].vectorIds),
                                 !.threw = TRUE], 500, "Internal Server Error")]
    /\ UNCHANGED <<projects, chatVars, env, fn, component, tables, upload, task, reindex>>

\* deleteDocumentVectors inside try/catch: a failure is logged and ignored
DeleteVectors(k, ok) ==
    /\ del[k].pc = "delete_vectors"
    /\ VECTOR_INDEX' = IF ok THEN DeleteByIds(del[k].vectorIds) ELSE VECTOR_INDEX
    /\ del' = [del EXCEPT ![k].pc = "delete_row",
                          ![k].calls = Append(@, del[k].vectorIds),
                          ![k].threw = ~ok]
    /\ UNCHANGED <<projects, chatVars, env, fn, component, tables, upload, task, reindex>>

\* db.delete(document): the row goes, and its chunk rows by cascade
DeleteRow(k) ==
    /\ del[k].pc = "delete_row"
    /\ document' = Restrict(document, DOMAIN document \ {del[k].doc})
    /\ documentChunk' =
          Restrict(documentChunk, DOMAIN documentChunk \ ChunksOf(del[k].doc))
    /\ del' = [del EXCEPT ![k] = Respond(@, 200, "")]
    /\ UNCHANGED <<projects, chatVars, env, fn, component, project, VECTOR_INDEX, upload, task, reindex>>

----------------------------------------------------------------------------
(* /api/projects (project variant): create, update, delete, ensure-default *)

ProjectBodies == {"ok", "invalid_json", "missing_name"}

\* db.update(document).set({ projectId: to }).where(eq(document.projectId, from))
MoveDocuments(from, to) ==
    [d \in DOMAIN document |->
        IF document[d].projectId = from
        THEN [document[d] EXCEPT !.projectId = to]
        ELSE document[d]]

\* POST /api/projects: authentication, body parsing and the insert
ProjectCreate(k, u, session, body) ==
    /\ env.variant = "hono"
    /\ projects[k].pc = "idle"
    /\ \A j \in ProjectRequestIds : j < k => projects[j].pc # "idle"
    /\ LET r == [projects[k] EXCEPT !.session = session, !.op = "create"]
           p == ProjectId("create", k)
       IN IF ~Authenticated(session)
          THEN /\ projects' = [projects EXCEPT ![k] = Respond(r, 401, "Unauthorized")]
               /\ UNCHANGED project
          ELSE IF body = "invalid_json"
          THEN /\ projects' = [projects EXCEPT ![k] = Respond(r, 400, "Invalid JSON")]
               /\ UNCHANGED project
          ELSE IF body = "missing_name"
          THEN /\ projects' = [projects EXCEPT ![k] = Respond(r, 400, "Name is required")]
               /\ UNCHANGED project
          ELSE /\ project' = project @@ (p :> [userId |-> u, isDefault |-> FALSE])
               /\ projects' = [projects EXCEPT ![k] =
                     Respond([r EXCEPT !.userId = u, !.id = p], 201, "")]
    /\ UNCHANGED <<chatVars, env, fn, component, document, documentChunk, VECTOR_INDEX,
                   upload, task, reindex, del>>

\* PUT /api/projects: authentication, the id parameter, body parsing and the
\* select of the project
ProjectUpdateRequest(k, u, session, hasId, body, p) ==
    /\ env.variant = "hono"
    /\ projects[k].pc = "idle"
    /\ \A j \in ProjectRequestIds : j < k => projects[j].pc # "idle"
    /\ projects' = [projects EXCEPT ![k] =
          LET r == [@ EXCEPT !.session = session, !.op = "update",
                             !.named = IF hasId THEN p ELSE NoProject] IN
          IF ~Authenticated(session)
          THEN Respond(r, 401, "Unauthorized")
          ELSE IF ~hasId
          THEN Respond(r, 400, "Project ID is required")
          ELSE IF body = "invalid_json"
          THEN Respond(r, 400, "Invalid JSON")
          ELSE IF ~(p \in DOMAIN project /\ project[p].userId = u)
          THEN Respond([r EXCEPT !.userId = u], 404, "Project not found")
          ELSE [r EXCEPT !.pc = "update", !.userId = u, !.id = p]]
    /\ UNCHANGED <<chatVars, env, fn, component, tables, VECTOR_INDEX, upload, task, reindex, del>>

\* db.update(project).set(updates): the name, the description and updatedAt,
\* none of which the model keeps
ProjectUpdate(k) ==
    /\ projects[k].pc = "update"
    /\ projects' = [projects EXCEPT ![k] = Respond(@, 200, "")]
    /\ UNCHANGED <<chatVars, env, fn, component, tables, VECTOR_INDEX, upload, task, reindex, del>>

\* DELETE /api/projects: authentication, the id parameter, the select of the
\* project and the refusal to delete a default project
ProjectDeleteRequest(k, u, session, hasId, p) ==
    /\ env.variant = "hono"
    /\ projects[k].pc = "idle"
    /\ \A j \in ProjectRequestIds : j < k => projects[j].pc # "idle"
    /\ projects' = [projects EXCEPT ![k] =
          LET r == [@ EXCEPT !.session = session, !.op = "delete",
                             !.named = IF hasId THEN p ELSE NoProject] IN
          IF ~Authenticated(session)
          THEN Respond(r, 401, "Unauthorized")
          ELSE IF ~hasId
          THEN Respond(r, 400, "Project ID is required")
          ELSE IF ~(p \in DOMAIN project /\ project[p].userId = u)
          THEN Respond([r EXCEPT !.userId = u], 404, "Project not found")
          ELSE IF project[p].isDefault
          THEN Respond([r EXCEPT !.userId = u, !.id = p], 400,
                       "Cannot delete the default project")
          ELSE [r EXCEPT !.pc = "default", !.userId = u, !.id = p]]
    /\ UNCHANGED <<chatVars, env, fn, component, tables, VECTOR_INDEX, upload, task, reindex, del>>

\* select the default project of the user: use the one found, or insert one
ProjectDeleteDefault(k) ==
    /\ projects[k].pc = "default"
    /\ projects[k].op = "delete"
    /\ LET u == projects[k].userId IN
       \/ /\ DefaultProjects(u) # {}
          /\ \E p \in DefaultProjects(u) :
                projects' = [projects EXCEPT ![k].pc = "move", ![k].defaultProject = p]
       \/ /\ DefaultProjects(u) = {}
          /\ projects' = [projects EXCEPT ![k].pc = "create_default"]
    /\ UNCHANGED <<chatVars, env, fn, component, tables, VECTOR_INDEX, upload, task, reindex, del>>

ProjectDeleteCreateDefault(k) ==
    /\ projects[k].pc = "create_default"
    /\ projects[k].op = "delete"
    /\ LET p == ProjectId("delete", k) IN
       /\ project' = project @@ (p :> [userId |-> projects[k].userId, isDefault |-> TRUE])
       /\ projects' = [projects EXCEPT ![k].pc = "move", ![k].defaultProject = p]
    /\ UNCHANGED <<chatVars, env, fn, component, document, documentChunk, VECTOR_INDEX,
                   upload, task, reindex, del>>

\* move the documents of the project to the default project
ProjectDeleteMove(k) ==
    /\ projects[k].pc = "move"
    /\ projects[k].op = "delete"
    /\ document' = MoveDocuments(projects[k].id, projects[k].defaultProject)
    /\ projects' = [projects EXCEPT ![k].pc = "delete"]
    /\ UNCHANGED <<chatVars, env, fn, component, project, documentChunk, VECTOR_INDEX,
                   upload, task, reindex, del>>

\* db.delete(project): the row goes; documents that still name it get a null
\* projectId (onDelete: "set null")
ProjectDeleteRow(k) ==
    /\ projects[k].pc = "delete"
    /\ project' = Restrict(project, DOMAIN project \ {projects[k].id})
    /\ document' = MoveDocuments(projects[k].id, NoProject)
    /\ projects' = [projects EXCEPT ![k] = Respond(@, 200, "")]
    /\ UNCHANGED <<chatVars, env, fn, component, documentChunk, VECTOR_INDEX,
                   upload, task, reindex, del>>

\* POST /api/projects/ensure-default: authentication and the select of the
\* default project
EnsureDefaultRequest(k, u, session) ==
    /\ env.variant = "hono"
    /\ projects[k].pc = "idle"
    /\ \A j \in ProjectRequestIds : j < k => projects[j].pc # "idle"
    /\ \E found \in IF DefaultProjects(u) = {} THEN {NoProject} ELSE DefaultProjects(u) :
          projects' = [projects EXCEPT ![k] =
             LET r == [@ EXCEPT !.session = session, !.op = "ensure"] IN
             IF ~Authenticated(session)
             THEN Respond(r, 401, "Unauthorized")
             ELSE IF found # NoProject
             THEN Respond([r EXCEPT !.userId = u, !.defaultProject = found], 200, "")
             ELSE [r EXCEPT !.pc = "create_default", !.userId = u]]
    /\ UNCHANGED <<chatVars, env, fn, component, tables, VECTOR_INDEX, upload, task, reindex, del>>

EnsureDefaultCreate(k) ==
    /\ projects[k].pc = "create_default"
    /\ projects[k].op = "ensure"
    /\ LET p == ProjectId("ensure", k) IN
       /\ project' = project @@ (p :> [userId |-> projects[k].userId, isDefault |-> TRUE])
       /\ projects' = [projects EXCEPT ![k].pc = "move", ![k].defaultProject = p]
    /\ UNCHANGED <<chatVars, env, fn, component, document, documentChunk, VECTOR_INDEX,
                   upload, task, reindex, del>>

\* the update ... where userId = u and projectId = NULL: in SQL the comparison
\* with NULL holds for no row, so no document moves
EnsureDefaultMove(k) ==
    /\ projects[k].pc = "move"
    /\ projects[k].op = "ensure"
    /\ projects' = [projects EXCEPT ![k] = Respond(@, 201, "")]
    /\ UNCHANGED <<chatVars, env, fn, component, tables, VECTOR_INDEX, upload, task, reindex, del>>

----------------------------------------------------------------------------
(* POST /api/chat *)

ChatBodies == {"ok", "invalid_json"}

\* the lengths of the messages sent, one longer than a title; 0 is the missing
\* or empty message
ChatTexts == {51}

\* the length of the text the chat model streams back
Replies == {7}

\* the conversation ids a request may name: every existing one and one that
\* does not exist
NamedConversations == DOMAIN conversation \cup {[req |-> MaxChats + 2]}

\* mutant: the title is the whole message
Title_Whole(text) == Slice(text, 0, text)

\* title: body.message.slice(0, 50)
Title(text) == Slice(text, 0, TITLE_LENGTH)

MessagesOf(c) == {m \in DOMAIN message : message[m].conversationId = c}

LatestCreatedAt ==
    CHOOSE t \in {message[m].createdAt : m \in DOMAIN message} :
        \A m \in DOMAIN message : message[m].createdAt <= t

\* new Date() of an insert, in seconds: second 0 for the first row, then the
\* second of the latest row or, after a tick of the clock, the next one
Now(tick) ==
    IF DOMAIN message = {} THEN 0
    ELSE LatestCreatedAt + (IF tick THEN 1 ELSE 0)

\* the rowid of an inserted row: one more than the largest in the table
NextRowid ==
    IF DOMAIN message = {} THEN 1
    ELSE 1 + CHOOSE n \in {message[m].rowid : m \in DOMAIN message} :
                \A m \in DOMAIN message : message[m].rowid <= n

\* the orders ORDER BY createdAt DESC may return the rows S in: rows of the same
\* second come in any order
RECURSIVE Descending(_)
Descending(S) ==
    IF S = {} THEN {<<>>}
    ELSE UNION {{<<m>> \o s : s \in Descending(S \ {m})} :
                   m \in {x \in S : \A y \in S : message[y].createdAt <= message[x].createdAt}}

Reverse(s) == [i \in 1..Len(s) |-> s[Len(s) + 1 - i]]

Limit(s, n) == SubSeq(s, 1, Min(n, Len(s)))

\* previousMessages.reverse().map(...) followed by the current message
ChatMessages(order, text) ==
    LET previous == Reverse(Limit(order, HISTORY_LIMIT)) IN
    Append([i \in 1..Len(previous) |->
               [role |-> message[previous[i]].role,
                content |-> message[previous[i]].content]],
           [role |-> "user", content |-> text])

\* authentication, body parsing and, without a conversation id, the insert of
\* a new conversation
ChatRequest(k, u, session, body, text, c, useRag, pid) ==
    /\ chat[k].pc = "idle"
    /\ \A j \in ChatIds : j < k => chat[j].pc # "idle"
    /\ LET r == [chat[k] EXCEPT !.session = session]
           accepted == [r EXCEPT !.pc = "history", !.userId = u, !.message = text,
                                 !.useRag = useRag, !.projectId = pid]
       IN IF ~Authenticated(session)
          THEN /\ chat' = [chat EXCEPT ![k] = Respond(r, 401, "Unauthorized")]
               /\ UNCHANGED conversation
          ELSE IF body = "invalid_json"
          THEN /\ chat' = [chat EXCEPT ![k] = Respond(r, 400, "Invalid JSON")]
               /\ UNCHANGED conversation
          ELSE IF text = 0
          THEN /\ chat' = [chat EXCEPT ![k] = Respond(r, 400, "Message is required")]
               /\ UNCHANGED conversation
          ELSE IF c = NoConversation
          THEN /\ conversation' = conversation @@
                     (ConversationId(k) :>
                         [userId |-> u, title |-> Title(text), projectId |-> NoProject])
               /\ chat' = [chat EXCEPT ![k] =
                     [accepted EXCEPT !.conversationId = ConversationId(k)]]
          ELSE /\ chat' = [chat EXCEPT ![k] = [accepted EXCEPT !.conversationId = c]]
               /\ UNCHANGED conversation
    /\ UNCHANGED <<env, fn, component, tables, message, VECTOR_INDEX, upload, task, reindex, del,
                   projects, read>>

\* select the last messages of the conversation and build the model input
ChatSelectHistory(k) ==
    /\ chat[k].pc = "history"
    /\ \E order \in Descending(MessagesOf(chat[k].conversationId)) :
          chat' = [chat EXCEPT ![k].pc = "save_user",
                               ![k].chatMessages = ChatMessages(order, chat[k].message)]
    /\ UNCHANGED <<env, fn, component, tables, conversation, message, VECTOR_INDEX, upload, task,
                   reindex, del, projects, read>>

\* a handler that goes on to the model without saving the user message
ChatInsertUser_Skipped(k, tick) ==
    /\ chat[k].pc = "save_user"
    /\ chat' = [chat EXCEPT ![k].pc = IF chat[k].useRag THEN "rag_embed" ELSE "model"]
    /\ UNCHANGED <<env, fn, component, tables, conversation, message, VECTOR_INDEX, upload, task,
                   reindex, del, projects, read>>

\* db.insert(message) of the user message; it throws when the conversation
\* does not exist, and nothing catches it
ChatInsertUser(k, tick) ==
    /\ chat[k].pc = "save_user"
    /\ IF chat[k].conversationId \in DOMAIN conversation
       THEN /\ message' = message @@
                  (MessageId(k, "user") :>
                      [conversationId |-> chat[k].conversationId, role |-> "user",
                       content |-> chat[k].message, createdAt |-> Now(tick),
                       rowid |-> NextRowid])
            /\ chat' = [chat EXCEPT ![k].pc = IF chat[k].useRag THEN "rag_embed"
                                             ELSE "model"]
       ELSE /\ chat' = [chat EXCEPT ![k] = Respond(@, 500, "Internal Server Error")]
            /\ UNCHANGED message
    /\ UNCHANGED <<env, fn, component, tables, conversation, VECTOR_INDEX, upload, task, reindex,
                   del, projects, read>>

\* mutant: a failure of the embedding call is not caught
ChatRagEmbed_Uncaught(k, ok) ==
    /\ chat[k].pc = "rag_embed"
    /\ chat' = [chat EXCEPT ![k] =
          IF ok
          THEN [@ EXCEPT !.pc = "rag_query", !.services = @ \cup {"embedding"}]
          ELSE Respond([@ EXCEPT !.services = @ \cup {"embedding"},
                                 !.failed = @ \cup {"embedding"}], 500,
                       "Failed to generate response")]
    /\ UNCHANGED <<env, fn, component, tables, conversation, message, VECTOR_INDEX, upload, task,
                   reindex, del, projects, read>>

\* performRagQuery, first await: generateEmbeddings(env.AI, [query]); a failure
\* is caught by the handler, which goes on with the base prompt
ChatRagEmbed(k, ok) ==
    /\ chat[k].pc = "rag_embed"
    /\ chat' = [chat EXCEPT ![k].pc = IF ok THEN "rag_query" ELSE "model",
                            ![k].services = @ \cup {"embedding"},
                            ![k].failed = IF ok THEN @ ELSE @ \cup {"embedding"}]
    /\ UNCHANGED <<env, fn, component, tables, conversation, message, VECTOR_INDEX, upload, task,
                   reindex, del, projects, read>>

\* vectorIndex.query(queryVector, { topK }): the topK nearest vectors of the
\* whole index; which ones they are depends on the embeddings
QueryVectors(topK) ==
    {ms \in SUBSET DOMAIN VECTOR_INDEX :
        Cardinality(ms) = Min(topK, Cardinality(DOMAIN VECTOR_INDEX))}

\* matches.matches.map(...): content and documentId of the metadata
RagContexts(ms) ==
    {[content |-> VECTOR_INDEX[v].content, documentId |-> VECTOR_INDEX[v].documentId] :
        v \in ms}

\* buildSystemPromptWithContext: the base prompt for zero contexts
buildSystemPromptWithContext(contexts) == IF contexts = {} THEN "base" ELSE "context"

\* performRagQuery, second await, and the prompt built from its result
ChatRagQuery(k, ok) ==
    /\ chat[k].pc = "rag_query"
    /\ \E ms \in QueryVectors(RAG_TOP_K) :
          chat' = [chat EXCEPT ![k] =
             IF ok
             THEN [@ EXCEPT !.pc = "model", !.services = @ \cup {"vector"},
                            !.contexts = RagContexts(ms),
                            !.systemPrompt = buildSystemPromptWithContext(RagContexts(ms))]
             ELSE [@ EXCEPT !.pc = "model", !.services = @ \cup {"vector"},
                            !.failed = @ \cup {"vector"}]]
    /\ UNCHANGED <<env, fn, component, tables, conversation, message, VECTOR_INDEX, upload, task,
                   reindex, del, projects, read>>

\* chatCompletionStream: the stream response starts, or the 500 of the catch
ChatModel(k, ok) ==
    /\ chat[k].pc = "model"
    /\ chat' = [chat EXCEPT ![k] =
          IF ok
          THEN [@ EXCEPT !.pc = "stream", !.status = 200,
                         !.services = @ \cup {"chat"}]
          ELSE Respond([@ EXCEPT !.services = @ \cup {"chat"},
                                 !.failed = @ \cup {"chat"}], 500,
                       "Failed to generate response")]
    /\ UNCHANGED <<env, fn, component, tables, conversation, message, VECTOR_INDEX, upload, task,
                   reindex, del, projects, read>>

\* the stream drains and flush() inserts the assistant message
ChatStreamDrain(k, reply, tick) ==
    /\ chat[k].pc = "stream"
    /\ message' =
          IF chat[k].conversationId \in DOMAIN conversation
          THEN message @@
                  (MessageId(k, "assistant") :>
                      [conversationId |-> chat[k].conversationId, role |-> "assistant",
                       content |-> reply, createdAt |-> Now(tick),
                       rowid |-> NextRowid])
          ELSE message
    /\ chat' = [chat EXCEPT ![k].pc = "done"]
    /\ UNCHANGED <<env, fn, component, tables, conversation, VECTOR_INDEX, upload, task, reindex,
                   del, projects, read>>

\* Texts are sequences of code points, chunks of a stream sequences of bytes.
\* The code points of a one-byte and of a two-byte character; 65533 is U+FFFD.
CodePoints == {97, 233}

\* new TextEncoder().encode(text): UTF-8, 233 is encoded as the bytes 195 169
RECURSIVE TextEncode(_)
TextEncode(text) ==
    IF text = <<>> THEN <<>>
    ELSE (IF Head(text) = 233 THEN <<195, 169>> ELSE <<Head(text)>>)
         \o TextEncode(Tail(text))

\* new TextDecoder().decode(chunk), without the stream option: a byte that is
\* not part of a complete sequence within the chunk becomes U+FFFD
RECURSIVE TextDecode(_)
TextDecode(chunk) ==
    IF chunk = <<>> THEN <<>>
    ELSE IF Head(chunk) = 97 THEN <<97>> \o TextDecode(Tail(chunk))
    ELSE IF Head(chunk) = 195 /\ Len(chunk) >= 2 /\ chunk[2] = 169
    THEN <<233>> \o TextDecode(Tail(Tail(chunk)))
    ELSE <<65533>> \o TextDecode(Tail(chunk))

\* mutant: the stream is the model's own, its bytes split into chunks anywhere
ChatStreamStart_Passthrough(k, responseText) ==
    /\ chat[k].pc = "stream"
    /\ chat[k].stream.state = "none"
    /\ \E cut \in 0..Len(TextEncode(responseText)) :
          chat' = [chat EXCEPT ![k].stream =
             [state |-> "open",
              source |-> <<SubSeq(TextEncode(responseText), 1, cut),
                           SubSeq(TextEncode(responseText), cut + 1,
                                  Len(TextEncode(responseText)))>>,
              relayed |-> <<>>, fullResponse |-> <<>>]]
    /\ UNCHANGED <<env, fn, component, tables, conversation, message, VECTOR_INDEX, upload, task,
                   reindex, del, projects, read>>

\* chatCompletionStream returns a stream whose start() enqueues the encoded
\* response text as one chunk and closes
ChatStreamStart(k, responseText) ==
    /\ chat[k].pc = "stream"
    /\ chat[k].stream.state = "none"
    /\ chat' = [chat EXCEPT ![k].stream =
          [state |-> "open", source |-> <<TextEncode(responseText)>>,
           relayed |-> <<>>, fullResponse |-> <<>>]]
    /\ UNCHANGED <<env, fn, component, tables, conversation, message, VECTOR_INDEX, upload, task,
                   reindex, del, projects, read>>

\* transform(chunk, controller): fullResponse += decoder.decode(chunk), and the
\* chunk is enqueued for the caller
ChatTransform(k) ==
    /\ chat[k].pc = "stream"
    /\ chat[k].stream.state = "open"
    /\ chat[k].stream.source # <<>>
    /\ chat' = [chat EXCEPT ![k].stream =
          [@ EXCEPT !.source = Tail(@),
                    !.relayed = Append(@, Head(chat[k].stream.source)),
                    !.fullResponse = @ \o TextDecode(Head(chat[k].stream.source))]]
    /\ UNCHANGED <<env, fn, component, tables, conversation, message, VECTOR_INDEX, upload, task,
                   reindex, del, projects, read>>

\* flush(): the source has closed and every chunk has passed; the assistant
\* message is inserted, a failing insert is caught
ChatFlush(k, tick) ==
    /\ chat[k].pc = "stream"
    /\ chat[k].stream.state = "open"
    /\ chat[k].stream.source = <<>>
    /\ message' =
          IF chat[k].conversationId \in DOMAIN conversation
          THEN message @@
                  (MessageId(k, "assistant") :>
                      [conversationId |-> chat[k].conversationId, role |-> "assistant",
                       content |-> chat[k].stream.fullResponse,
                       createdAt |-> Now(tick), rowid |-> NextRowid])
          ELSE message
    /\ chat' = [chat EXCEPT ![k].pc = "done", ![k].stream.state = "closed"]
    /\ UNCHANGED <<env, fn, component, tables, conversation, VECTOR_INDEX, upload, task, reindex,
                   del, projects, read>>

\* the caller cancels the stream: flush() never runs
ChatStreamCancel(k) ==
    /\ chat[k].pc = "stream"
    /\ chat' = [chat EXCEPT ![k].pc = "done"]
    /\ UNCHANGED <<env, fn, component, tables, conversation, message, VECTOR_INDEX, upload, task,
                   reindex, del, projects, read>>

----------------------------------------------------------------------------
(* GET /api/chat, GET /api/documents, GET /api/projects *)

ReadApis == {"chat", "documents", "projects"}

\* authentication and the first select; d = 0 and c = NoConversation stand for
\* a request without the id parameter
ReadRequest(k, api, u, session, c, d) ==
    /\ read[k].pc = "idle"
    /\ \A j \in ReadIds : j < k => read[j].pc # "idle"
    /\ api = "projects" => env.variant = "hono"
    /\ read' = [read EXCEPT ![k] =
          LET r == [@ EXCEPT !.session = session, !.api = api] IN
          IF ~Authenticated(session)
          THEN Respond(r, 401, "Unauthorized")
          ELSE IF api = "documents" /\ d = 0
          THEN Respond([r EXCEPT !.userId = u,
                           !.rows = {e \in DOMAIN document : document[e].userId = u}],
                       200, "")
          ELSE IF api = "documents"
          THEN IF d \in DOMAIN document /\ document[d].userId = u
               THEN Respond([r EXCEPT !.userId = u, !.rows = {d}], 200, "")
               ELSE Respond([r EXCEPT !.userId = u], 404, "Document not found")
          ELSE IF api = "projects"
          THEN Respond([r EXCEPT !.userId = u,
                           !.rows = {p \in DOMAIN project : project[p].userId = u}],
                       200, "")
          ELSE IF c = NoConversation
          THEN Respond([r EXCEPT !.userId = u,
                           !.rows = {x \in DOMAIN conversation :
                                        conversation[x].userId = u}],
                       200, "")
          ELSE IF ~(c \in DOMAIN conversation /\ conversation[c].userId = u)
          THEN Respond([r EXCEPT !.userId = u], 404, "Conversation not found")
          ELSE [r EXCEPT !.pc = "messages", !.userId = u, !.conversationId = c]]
    /\ UNCHANGED <<env, fn, component, tables, conversation, message, VECTOR_INDEX, upload, task,
                   reindex, del, projects, chat>>

\* select the messages ORDER BY createdAt
ReadMessages(k) ==
    /\ read[k].pc = "messages"
    /\ \E order \in Descending(MessagesOf(read[k].conversationId)) :
          read' = [read EXCEPT ![k] =
             Respond([@ EXCEPT !.messages = Reverse(order)], 200, "")]
    /\ UNCHANGED <<env, fn, component, tables, conversation, message, VECTOR_INDEX, upload, task,
                   reindex, del, projects, chat>>

----------------------------------------------------------------------------
(* The document specification: uploads without a project, re-index and      *)
(* delete requests of an authenticated user with well-formed bodies, and    *)
(* the background tasks.                                                    *)

\* the requests that have arrived
Started ==
    Cardinality({d \in DocIds : upload[d].pc # "idle"})
    + Cardinality({k \in ReindexIds : reindex[k].pc # "idle"})
    + Cardinality({k \in DeleteIds : del[k].pc # "idle"})

UploadSteps ==
    \/ \E d \in DocIds : UploadDefaultProject(d)
    \/ \E d \in DocIds : UploadCreateDefault(d)
    \/ \E d \in DocIds : UploadInsert(d)

\* processDocument, the chunk rows and the status update
PipelineSteps ==
    \/ \E t \in TaskIds, ok \in BOOLEAN : TaskEmbed(t, ok)
    \/ \E t \in TaskIds, ok \in BOOLEAN : TaskStore(t, ok)
    \/ \E t \in TaskIds : TaskInsertChunks(t)
    \/ \E t \in TaskIds : TaskSetReady(t)
    \/ \E t \in TaskIds : TaskSetFailed(t)

TaskSteps ==
    \/ PipelineSteps
    \/ \E t \in TaskIds : TaskLocalChunk(t)

ReindexSteps ==
    \/ \E k \in ReindexIds : ReindexSelectChunks(k)
    \/ \E k \in ReindexIds, ok \in BOOLEAN : ReindexDeleteVectors(k, ok)
    \/ \E k \in ReindexIds : ReindexDeleteChunks(k)
    \/ \E k \in ReindexIds : ReindexSetProcessing(k)

DeleteSteps ==
    \/ \E k \in DeleteIds : DeleteSelectChunks(k)
    \/ \E k \in DeleteIds, ok \in BOOLEAN : DeleteVectors(k, ok)
    \/ \E k \in DeleteIds : DeleteRow(k)

DocUpload ==
    /\ Started < MaxRequests
    /\ \E d \in DocIds, text \in Contents :
          UploadRequest(d, "alice", "valid", "ok", NoProject, text)

DocReindex ==
    /\ Started < MaxRequests
    /\ \E k \in ReindexIds, d \in DocIds : ReindexRequest(k, "alice", "valid", "ok", d)

DocDelete ==
    /\ Started < MaxRequests
    /\ \E k \in DeleteIds, d \in DocIds : DeleteRequest(k, "alice", "valid", TRUE, d)

Next ==
    \/ DocUpload \/ DocReindex \/ DocDelete
    \/ UploadSteps \/ TaskSteps \/ ReindexSteps \/ DeleteSteps

Spec == Init /\ [][Next]_vars

----------------------------------------------------------------------------
(* The scheduled document specification: the document specification with    *)
(* status updates that may throw, where every handler and every background  *)
(* task that can take a step eventually takes one.                          *)

TaskThrows ==
    \/ \E t \in TaskIds : TaskSetReadyThrows(t)
    \/ \E t \in TaskIds : TaskSetFailedThrows(t)

\* the steps of the handlers and tasks that have started
Scheduled == UploadSteps \/ TaskSteps \/ TaskThrows \/ ReindexSteps \/ DeleteSteps

NextLive == DocUpload \/ DocReindex \/ DocDelete \/ Scheduled

SpecLive == Init /\ [][NextLive]_vars /\ WF_vars(Scheduled)

----------------------------------------------------------------------------
(* The project specification: the project variant with uploads, project     *)
(* requests and the background tasks.                                       *)

ProjectInit == Init /\ env.variant = "hono"

ProjectStarted ==
    Cardinality({d \in DocIds : upload[d].pc # "idle"})
    + Cardinality({k \in ProjectRequestIds : projects[k].pc # "idle"})

ProjectSteps ==
    \/ \E k \in ProjectRequestIds : ProjectUpdate(k)
    \/ \E k \in ProjectRequestIds : ProjectDeleteDefault(k)
    \/ \E k \in ProjectRequestIds : ProjectDeleteCreateDefault(k)
    \/ \E k \in ProjectRequestIds : ProjectDeleteMove(k)
    \/ \E k \in ProjectRequestIds : ProjectDeleteRow(k)
    \/ \E k \in ProjectRequestIds : EnsureDefaultCreate(k)
    \/ \E k \in ProjectRequestIds : EnsureDefaultMove(k)

ProjectUpload ==
    /\ ProjectStarted < MaxRequests
    /\ \E d \in DocIds, pid \in {NoProject} \cup NamedProjects, text \in Contents :
          UploadRequest(d, "alice", "valid", "ok", pid, text)

ProjectRequest ==
    /\ ProjectStarted < MaxRequests
    /\ \E k \in ProjectRequestIds, p \in NamedProjects :
          \/ ProjectCreate(k, "alice", "valid", "ok")
          \/ ProjectUpdateRequest(k, "alice", "valid", TRUE, "ok", p)
          \/ ProjectDeleteRequest(k, "alice", "valid", TRUE, p)
          \/ EnsureDefaultRequest(k, "alice", "valid")

NextProject ==
    \/ ProjectUpload \/ ProjectRequest
    \/ UploadSteps \/ ProjectSteps \/ PipelineSteps

SpecProject == ProjectInit /\ [][NextProject]_vars

----------------------------------------------------------------------------
(* The chat specification: chat requests in the project variant, after      *)
(* every document of DocIds has been uploaded without a project by one of   *)
(* the users and its background task has finished without a failure.  A     *)
(* request names no project or a project of its sender.                     *)

\* the length of the uploaded texts: two chunks each
ChatContents == {600}

\* the default project the upload of document d used: the one the first upload
\* of the same user created
UploadedInto(owner, d) ==
    ProjectId("upload", CHOOSE e \in DocIds :
                           /\ owner[e] = owner[d]
                           /\ \A f \in DocIds : owner[f] = owner[d] => e <= f)

ChatInit ==
    \E owner \in [DocIds -> Users], text \in ChatContents :
        /\ env = [variant |-> "hono", isLocalDev |-> FALSE]
        /\ component = IdleComponent
        /\ fn = IdleFn
        /\ project = [p \in {UploadedInto(owner, d) : d \in DocIds} |->
                         [userId |-> owner[p.n], isDefault |-> TRUE]]
        /\ document = [d \in DocIds |->
                          [userId |-> owner[d], projectId |-> UploadedInto(owner, d),
                           content |-> text, status |-> "ready"]]
        /\ documentChunk =
              [c \in UNION {DOMAIN ChunkRows(d, text) : d \in DocIds} |->
                  ChunkRows(c.doc, text)[c]]
        /\ VECTOR_INDEX =
              [v \in UNION {DOMAIN Vectors(d, text) : d \in DocIds} |->
                  Vectors(v.doc, text)[v]]
        /\ conversation = <<>>
        /\ message = <<>>
        /\ upload = [d \in DocIds |->
                        [pc |-> "done", session |-> "valid", body |-> "ok",
                         userId |-> owner[d], named |-> NoProject, projectId |-> UploadedInto(owner, d),
                         content |-> text, status |-> 201, error |-> ""]]
        /\ task = [t \in TaskIds |->
                      IF t.kind = "upload"
                      THEN [pc |-> "done", doc |-> t.n, content |-> text,
                            raised |-> "none"]
                      ELSE IdleTask]
        /\ reindex = [k \in ReindexIds |-> IdleReindex]
        /\ del = [k \in DeleteIds |-> IdleDelete]
        /\ projects = [k \in ProjectRequestIds |-> IdleProjects]
        /\ chat = [k \in ChatIds |-> IdleChat]
        /\ read = [k \in ReadIds |-> IdleRead]

ChatStarted == Cardinality({k \in ChatIds : chat[k].pc # "idle"})

ChatSteps ==
    \/ \E k \in ChatIds : ChatSelectHistory(k)
    \/ \E k \in ChatIds, tick \in BOOLEAN : ChatInsertUser(k, tick)
    \/ \E k \in ChatIds, ok \in BOOLEAN : ChatRagEmbed(k, ok)
    \/ \E k \in ChatIds, ok \in BOOLEAN : ChatRagQuery(k, ok)
    \/ \E k \in ChatIds, ok \in BOOLEAN : ChatModel(k, ok)
    \/ \E k \in ChatIds, reply \in Replies, tick \in BOOLEAN :
          ChatStreamDrain(k, reply, tick)
    \/ \E k \in ChatIds : ChatStreamCancel(k)

ChatPost ==
    /\ ChatStarted < MaxChats
    /\ \E k \in ChatIds, u \in Users, text \in ChatTexts, useRag \in BOOLEAN,
          c \in {NoConversation} \cup DOMAIN conversation :
          \E pid \in {NoProject} \cup {p \in DOMAIN project : project[p].userId = u} :
             ChatRequest(k, u, "valid", "ok", text, c, useRag, pid)

NextChat == ChatPost \/ ChatSteps

SpecChat == ChatInit /\ [][NextChat]_vars

----------------------------------------------------------------------------
(* The history specification: chat requests of alice without retrieval,     *)
(* after earlier requests of one of the users have left a conversation with *)
(* stored messages.  A request names no conversation or an existing one.    *)

\* the number of stored messages is 0, 2 or MaxStored, and at most one of them
\* was inserted in the same second as the one before
MaxStored == 11

\* the conversation the earlier requests created
StoredConversation == ConversationId(0 - 1)

\* the i-th message the earlier requests stored: user and assistant messages
\* alternate, the i-th has a content of i characters, and its createdAt is the
\* number of seconds that began after the first insert
StoredMessage(i, ties) ==
    [conversationId |-> StoredConversation,
     role |-> IF i % 2 = 1 THEN "user" ELSE "assistant",
     content |-> i,
     createdAt |-> (i - 1) - Cardinality({j \in ties : j <= i}),
     rowid |-> i]

StoredId(i) == MessageId(0 - i, IF i % 2 = 1 THEN "user" ELSE "assistant")

HistoryInit ==
    \E owner \in Users, n \in {0, 2, MaxStored} :
       \E ties \in {{}} \cup {{j} : j \in 2..n} :
          /\ env = [variant |-> "hono", isLocalDev |-> FALSE]
          /\ component = IdleComponent
          /\ fn = IdleFn
          /\ project = <<>>
          /\ document = <<>>
          /\ documentChunk = <<>>
          /\ VECTOR_INDEX = <<>>
          /\ conversation =
                (StoredConversation :>
                    [userId |-> owner, title |-> Title(1), projectId |-> NoProject])
          /\ message = [m \in {StoredId(i) : i \in 1..n} |->
                           StoredMessage(0 - m.req, ties)]
          /\ upload = [d \in DocIds |-> IdleUpload]
          /\ task = [t \in TaskIds |-> IdleTask]
          /\ reindex = [k \in ReindexIds |-> IdleReindex]
          /\ del = [k \in DeleteIds |-> IdleDelete]
          /\ projects = [k \in ProjectRequestIds |-> IdleProjects]
          /\ chat = [k \in ChatIds |-> IdleChat]
          /\ read = [k \in ReadIds |-> IdleRead]

HistoryPost ==
    /\ ChatStarted < MaxChats
    /\ \E k \in ChatIds, text \in ChatTexts, c \in {NoConversation} \cup DOMAIN conversation :
          ChatRequest(k, "alice", "valid", "ok", text, c, FALSE, NoProject)

HistorySteps ==
    \/ \E k \in ChatIds : ChatSelectHistory(k)
    \/ \E k \in ChatIds, tick \in BOOLEAN : ChatInsertUser(k, tick)
    \/ \E k \in ChatIds, ok \in BOOLEAN : ChatModel(k, ok)
    \/ \E k \in ChatIds, reply \in Replies, tick \in BOOLEAN :
          ChatStreamDrain(k, reply, tick)
    \/ \E k \in ChatIds : ChatStreamCancel(k)

NextHistory == HistoryPost \/ HistorySteps

SpecHistory == HistoryInit /\ [][NextHistory]_vars

----------------------------------------------------------------------------
(* The chunking specification: chunkText evaluated on its own, statement by *)
(* statement, for a text of up to MaxText characters, a chunk size of up to *)
(* MaxChunkSize and an overlap below the chunk size.                        *)

MaxText == 8
MaxChunkSize == 4

\* chunkText(text, chunkSize, overlap) has been called: chunks = [], start = 0
ChunkInit ==
    /\ \E text \in 0..MaxText, chunkSize \in 1..MaxChunkSize :
          \E overlap \in 0..(chunkSize - 1) :
             fn = [name |-> "chunkText", pc |-> "while", text |-> text,
                   chunkSize |-> chunkSize, overlap |-> overlap,
                   start |-> 0, chunks |-> <<>>]
    /\ env = [variant |-> "hono", isLocalDev |-> FALSE]
    /\ component = IdleComponent
    /\ project = <<>>
    /\ document = <<>>
    /\ documentChunk = <<>>
    /\ conversation = <<>>
    /\ message = <<>>
    /\ VECTOR_INDEX = <<>>
    /\ upload = [d \in DocIds |-> IdleUpload]
    /\ task = [t \in TaskIds |-> IdleTask]
    /\ reindex = [k \in ReindexIds |-> IdleReindex]
    /\ del = [k \in DeleteIds |-> IdleDelete]
    /\ projects = [k \in ProjectRequestIds |-> IdleProjects]
    /\ chat = [k \in ChatIds |-> IdleChat]
    /\ read = [k \in ReadIds |-> IdleRead]

\* mutant: the body runs once before the loop condition is tested
ChunkTextIterate_DoWhile ==
    /\ fn.name = "chunkText" /\ fn.pc = "while"
    /\ fn.start < fn.text \/ fn.chunks = <<>>
    /\ LET end == Min(fn.start + fn.chunkSize, fn.text)
           next == fn.start + (fn.chunkSize - fn.overlap)
       IN  fn' = [fn EXCEPT !.chunks = Append(@, Slice(fn.text, fn.start, end)),
                            !.start = next,
                            !.pc = IF next >= fn.text THEN "done" ELSE "while"]
    /\ UNCHANGED <<env, component, tables, chatVars, VECTOR_INDEX, upload, task, reindex,
                   del, projects>>

\* mutant: the next chunk starts where this one ends
ChunkTextIterate_NoOverlap ==
    /\ fn.name = "chunkText" /\ fn.pc = "while"
    /\ fn.start < fn.text
    /\ LET end == Min(fn.start + fn.chunkSize, fn.text)
           next == fn.start + fn.chunkSize
       IN  fn' = [fn EXCEPT !.chunks = Append(@, Slice(fn.text, fn.start, end)),
                            !.start = next,
                            !.pc = IF next >= fn.text THEN "done" ELSE "while"]
    /\ UNCHANGED <<env, component, tables, chatVars, VECTOR_INDEX, upload, task, reindex,
                   del, projects>>

\* mutant: the next chunk starts one character after this one ends
ChunkTextIterate_Gap ==
    /\ fn.name = "chunkText" /\ fn.pc = "while"
    /\ fn.start < fn.text
    /\ LET end == Min(fn.start + fn.chunkSize, fn.text)
           next == fn.start + fn.chunkSize + 1
       IN  fn' = [fn EXCEPT !.chunks = Append(@, Slice(fn.text, fn.start, end)),
                            !.start = next,
                            !.pc = IF next >= fn.text THEN "done" ELSE "while"]
    /\ UNCHANGED <<env, component, tables, chatVars, VECTOR_INDEX, upload, task, reindex,
                   del, projects>>

\* one pass of the while loop: push the slice, advance start, break when start
\* has reached the end of the text
ChunkTextIterate ==
    /\ fn.name = "chunkText" /\ fn.pc = "while"
    /\ fn.start < fn.text
    /\ LET end == Min(fn.start + fn.chunkSize, fn.text)
           next == fn.start + (fn.chunkSize - fn.overlap)
       IN  fn' = [fn EXCEPT !.chunks = Append(@, Slice(fn.text, fn.start, end)),
                            !.start = next,
                            !.pc = IF next >= fn.text THEN "done" ELSE "while"]
    /\ UNCHANGED <<env, component, tables, chatVars, VECTOR_INDEX, upload, task, reindex,
                   del, projects>>

\* the loop condition is false: return chunks
ChunkTextReturn ==
    /\ fn.name = "chunkText" /\ fn.pc = "while"
    /\ ~(fn.start < fn.text)
    /\ fn' = [fn EXCEPT !.pc = "done"]
    /\ UNCHANGED <<env, component, tables, chatVars, VECTOR_INDEX, upload, task, reindex,
                   del, projects>>

NextChunk == ChunkTextIterate \/ ChunkTextReturn

\* the function runs to completion once called
SpecChunk == ChunkInit /\ [][NextChunk]_vars /\ WF_vars(NextChunk)

----------------------------------------------------------------------------
(* The embedding specification: generateEmbeddings evaluated on its own for *)
(* a batch of up to MaxBatch texts.  The embedding model answers with one   *)
(* vector per text, in order, or the call throws.                           *)

MaxBatch == 4

\* the texts of a batch, by their lengths
BatchTexts == {1, 2}

\* the sizes of the model's vectors the repository states: 2048 (ai.server.ts,
\* line 10) and 1024 (README Tech Stack; ai.server.ts, line 330)
ModelDimensions == {1024, 2048}

EmbedInit ==
    /\ \E count \in 0..MaxBatch :
          \E texts \in [1..count -> BatchTexts] :
             fn = [name |-> "generateEmbeddings", pc |-> "run", texts |-> texts,
                   data |-> <<>>, result |-> <<>>]
    /\ env = [variant |-> "hono", isLocalDev |-> FALSE]
    /\ component = IdleComponent
    /\ project = <<>>
    /\ document = <<>>
    /\ documentChunk = <<>>
    /\ conversation = <<>>
    /\ message = <<>>
    /\ VECTOR_INDEX = <<>>
    /\ upload = [d \in DocIds |-> IdleUpload]
    /\ task = [t \in TaskIds |-> IdleTask]
    /\ reindex = [k \in ReindexIds |-> IdleReindex]
    /\ del = [k \in DeleteIds |-> IdleDelete]
    /\ projects = [k \in ProjectRequestIds |-> IdleProjects]
    /\ chat = [k \in ChatIds |-> IdleChat]
    /\ read = [k \in ReadIds |-> IdleRead]

\* ai.run(EMBEDDING_MODEL, { text: texts }): the i-th vector of the answer
\* embeds the i-th text and has the components 0..dimensions of the model
GenerateEmbeddingsRun(ok, dimensions) ==
    /\ fn.name = "generateEmbeddings" /\ fn.pc = "run"
    /\ fn' = IF ok
             THEN [fn EXCEPT !.pc = "map",
                             !.data = [i \in 1..Len(fn.texts) |->
                                          [text |-> fn.texts[i],
                                           values |-> <<0, dimensions>>]]]
             ELSE [fn EXCEPT !.pc = "thrown"]
    /\ UNCHANGED <<env, component, tables, chatVars, VECTOR_INDEX, upload, task, reindex,
                   del, projects>>

\* mutant: the vectors of the model are returned as they are
GenerateEmbeddingsMap_Untruncated ==
    /\ fn.name = "generateEmbeddings" /\ fn.pc = "map"
    /\ fn' = [fn EXCEPT !.pc = "done", !.result = fn.data]
    /\ UNCHANGED <<env, component, tables, chatVars, VECTOR_INDEX, upload, task, reindex,
                   del, projects>>

\* embeddings.map((emb) => emb.slice(0, VECTORIZE_DIMENSIONS))
GenerateEmbeddingsMap ==
    /\ fn.name = "generateEmbeddings" /\ fn.pc = "map"
    /\ fn' = [fn EXCEPT !.pc = "done",
                        !.result = [i \in 1..Len(fn.data) |->
                                       [text |-> fn.data[i].text,
                                        values |-> Slice(fn.data[i].values[2], 0,
                                                         VECTORIZE_DIMENSIONS)]]]
    /\ UNCHANGED <<env, component, tables, chatVars, VECTOR_INDEX, upload, task, reindex,
                   del, projects>>

NextEmbed ==
    \/ \E ok \in BOOLEAN, dimensions \in ModelDimensions :
          GenerateEmbeddingsRun(ok, dimensions)
    \/ GenerateEmbeddingsMap

SpecEmbed == EmbedInit /\ [][NextEmbed]_vars

----------------------------------------------------------------------------
(* The prompt specification: buildSystemPromptWithContext on its own, on    *)
(* the contexts performRagQuery returns, with the default base prompt.  A   *)
(* prompt is the sequence of its parts.                                     *)

MaxContexts == 3

\* the contents and scores of the matches
ContextContents == {"", "text"}
ContextScores == {5, 95}

Literal(text) == [kind |-> "literal", text |-> text, n |-> 0]
\* `[Document ${n}]`
Label(n) == [kind |-> "label", text |-> "Document", n |-> n]
Content(text) == [kind |-> "content", text |-> text, n |-> 0]

\* blocks.join("\n\n")
RECURSIVE Join(_)
Join(blocks) ==
    IF blocks = <<>> THEN <<>>
    ELSE IF Len(blocks) = 1 THEN blocks[1]
    ELSE blocks[1] \o <<Literal("\n\n")>> \o Join(Tail(blocks))

\* buildSystemPromptWithContext(contexts) has been called
PromptInit ==
    /\ \E count \in 0..MaxContexts :
          \E contexts \in [1..count -> [content : ContextContents, score : ContextScores]] :
             fn = [name |-> "buildSystemPromptWithContext", pc |-> "if",
                   contexts |-> contexts, blocks |-> <<>>, result |-> <<>>]
    /\ env = [variant |-> "hono", isLocalDev |-> FALSE]
    /\ component = IdleComponent
    /\ project = <<>>
    /\ document = <<>>
    /\ documentChunk = <<>>
    /\ conversation = <<>>
    /\ message = <<>>
    /\ VECTOR_INDEX = <<>>
    /\ upload = [d \in DocIds |-> IdleUpload]
    /\ task = [t \in TaskIds |-> IdleTask]
    /\ reindex = [k \in ReindexIds |-> IdleReindex]
    /\ del = [k \in DeleteIds |-> IdleDelete]
    /\ projects = [k \in ProjectRequestIds |-> IdleProjects]
    /\ chat = [k \in ChatIds |-> IdleChat]
    /\ read = [k \in ReadIds |-> IdleRead]

\* if (contexts.length === 0) return basePrompt
BuildPromptIf ==
    /\ fn.name = "buildSystemPromptWithContext" /\ fn.pc = "if"
    /\ fn' = IF Len(fn.contexts) = 0
             THEN [fn EXCEPT !.pc = "done", !.result = <<Literal("basePrompt")>>]
             ELSE [fn EXCEPT !.pc = "map"]
    /\ UNCHANGED <<env, component, tables, chatVars, VECTOR_INDEX, upload, task, reindex,
                   del, projects>>

\* mutant: contexts with a low score are left out
BuildPromptMap_Scored ==
    /\ fn.name = "buildSystemPromptWithContext" /\ fn.pc = "map"
    /\ Len(fn.blocks) < Len(fn.contexts)
    /\ LET i == Len(fn.blocks) IN
       fn' = [fn EXCEPT !.blocks =
                Append(@, IF fn.contexts[i + 1].score < 50 THEN <<>>
                          ELSE <<Label(i + 1), Literal("\n"),
                                 Content(fn.contexts[i + 1].content)>>)]
    /\ UNCHANGED <<env, component, tables, chatVars, VECTOR_INDEX, upload, task, reindex,
                   del, projects>>

\* contexts.map((ctx, i) => `[Document ${i + 1}]\n${ctx.content}`), one element
BuildPromptMap ==
    /\ fn.name = "buildSystemPromptWithContext" /\ fn.pc = "map"
    /\ Len(fn.blocks) < Len(fn.contexts)
    /\ LET i == Len(fn.blocks) IN
       fn' = [fn EXCEPT !.blocks =
                Append(@, <<Label(i + 1), Literal("\n"),
                           Content(fn.contexts[i + 1].content)>>)]
    /\ UNCHANGED <<env, component, tables, chatVars, VECTOR_INDEX, upload, task, reindex,
                   del, projects>>

\* .join("\n\n") and the template around contextText
BuildPromptReturn ==
    /\ fn.name = "buildSystemPromptWithContext" /\ fn.pc = "map"
    /\ Len(fn.blocks) = Len(fn.contexts)
    /\ fn' = [fn EXCEPT !.pc = "done",
                        !.result = <<Literal("basePrompt"), Literal("\n\n"),
                                     Literal("Use the following context"),
                                     Literal("\n\n")>>
                                   \o Join(fn.blocks)
                                   \o <<Literal("\n\n"),
                                        Literal("If the context doesn't contain")>>]
    /\ UNCHANGED <<env, component, tables, chatVars, VECTOR_INDEX, upload, task, reindex,
                   del, projects>>

NextPrompt == BuildPromptIf \/ BuildPromptMap \/ BuildPromptReturn

SpecPrompt == PromptInit /\ [][NextPrompt]_vars

----------------------------------------------------------------------------
(* The ownership specification: mutating requests of two users in the       *)
(* project variant, each naming any document or any existing project, its   *)
(* sender's or not, and the steps the accepted ones go on with.             *)

OwnerStarted ==
    Started + Cardinality({k \in ProjectRequestIds : projects[k].pc # "idle"})

OwnerRequest ==
    /\ OwnerStarted < MaxRequests
    /\ \E u \in Users :
          \/ \E d \in DocIds, pid \in {NoProject} \cup DOMAIN project, text \in Contents :
                UploadRequest(d, u, "valid", "ok", pid, text)
          \/ \E k \in ReindexIds, d \in DocIds : ReindexRequest(k, u, "valid", "ok", d)
          \/ \E k \in DeleteIds, d \in DocIds : DeleteRequest(k, u, "valid", TRUE, d)
          \/ \E k \in ProjectRequestIds : ProjectCreate(k, u, "valid", "ok")
          \/ \E k \in ProjectRequestIds, p \in DOMAIN project :
                ProjectUpdateRequest(k, u, "valid", TRUE, "ok", p)
          \/ \E k \in ProjectRequestIds, p \in DOMAIN project :
                ProjectDeleteRequest(k, u, "valid", TRUE, p)

OwnerProjectSteps ==
    \/ \E k \in ProjectRequestIds : ProjectUpdate(k)
    \/ \E k \in ProjectRequestIds : ProjectDeleteDefault(k)
    \/ \E k \in ProjectRequestIds : ProjectDeleteCreateDefault(k)
    \/ \E k \in ProjectRequestIds : ProjectDeleteMove(k)
    \/ \E k \in ProjectRequestIds : ProjectDeleteRow(k)

NextOwner ==
    \/ OwnerRequest
    \/ UploadSteps \/ PipelineSteps \/ ReindexSteps \/ DeleteSteps
    \/ OwnerProjectSteps

SpecOwner == ProjectInit /\ [][NextOwner]_vars

----------------------------------------------------------------------------
(* The project deletion specification: a user who has created a project,    *)
(* and may have a default project from an earlier upload, uploads documents  *)
(* and deletes projects, in any interleaving of the handlers' steps.         *)

\* the project an earlier POST /api/projects created
StoredProject == ProjectId("create", 0)
\* the default project an earlier upload created
StoredDefault == ProjectId("upload", 0)

MoveInit ==
    /\ env \in Envs /\ env.variant = "hono"
    /\ component = IdleComponent
    /\ fn = IdleFn
    /\ \E hasDefault \in BOOLEAN :
          project = (StoredProject :> [userId |-> "alice", isDefault |-> FALSE])
                    @@ (IF hasDefault
                        THEN StoredDefault :> [userId |-> "alice", isDefault |-> TRUE]
                        ELSE <<>>)
    /\ document = <<>>
    /\ documentChunk = <<>>
    /\ conversation = <<>>
    /\ message = <<>>
    /\ VECTOR_INDEX = <<>>
    /\ upload = [d \in DocIds |-> IdleUpload]
    /\ task = [t \in TaskIds |-> IdleTask]
    /\ reindex = [k \in ReindexIds |-> IdleReindex]
    /\ del = [k \in DeleteIds |-> IdleDelete]
    /\ projects = [k \in ProjectRequestIds |-> IdleProjects]
    /\ chat = [k \in ChatIds |-> IdleChat]
    /\ read = [k \in ReadIds |-> IdleRead]

MoveRequest ==
    /\ ProjectStarted < MaxRequests
    /\ \/ \E d \in DocIds, pid \in {NoProject} \cup DOMAIN project, text \in Contents :
             UploadRequest(d, "alice", "valid", "ok", pid, text)
       \/ \E k \in ProjectRequestIds, p \in DOMAIN project :
             ProjectDeleteRequest(k, "alice", "valid", TRUE, p)

MoveSteps ==
    \/ \E k \in ProjectRequestIds : ProjectDeleteDefault(k)
    \/ \E k \in ProjectRequestIds : ProjectDeleteCreateDefault(k)
    \/ \E k \in ProjectRequestIds : ProjectDeleteMove(k)
    \/ \E k \in ProjectRequestIds : ProjectDeleteRow(k)

NextMove ==
    \/ MoveRequest
    \/ UploadSteps \/ PipelineSteps \/ MoveSteps

SpecMove == MoveInit /\ [][NextMove]_vars

----------------------------------------------------------------------------
(* The stream specification: chat requests without retrieval that start a   *)
(* conversation, with the response stream followed chunk by chunk.          *)

MaxReply == 2

\* the response texts of the model: up to MaxReply characters
ResponseTexts == UNION {[1..n -> CodePoints] : n \in 0..MaxReply}

StreamPost ==
    /\ ChatStarted < MaxChats
    /\ \E k \in ChatIds, u \in Users, text \in ChatTexts :
          ChatRequest(k, u, "valid", "ok", text, NoConversation, FALSE, NoProject)

StreamSteps ==
    \/ \E k \in ChatIds : ChatSelectHistory(k)
    \/ \E k \in ChatIds, tick \in BOOLEAN : ChatInsertUser(k, tick)
    \/ \E k \in ChatIds, ok \in BOOLEAN : ChatModel(k, ok)
    \/ \E k \in ChatIds, responseText \in ResponseTexts : ChatStreamStart(k, responseText)
    \/ \E k \in ChatIds : ChatTransform(k)
    \/ \E k \in ChatIds, tick \in BOOLEAN : ChatFlush(k, tick)
    \/ \E k \in ChatIds : ChatStreamCancel(k)

NextStream == StreamPost \/ StreamSteps

SpecStream == ChatInit /\ [][NextStream]_vars

----------------------------------------------------------------------------
(* The Chat component: one browser tab of an authenticated user.  The       *)
(* component specification runs its handlers against the chat route.       *)

ServerVars ==
    <<env, fn, tables, conversation, message, VECTOR_INDEX, upload, task, reindex,
      del, projects, chat, read>>

\* handleSubmit up to the fetch: isLoading is set and the request is built with
\* the conversationId of this render
HandleSubmit(k) ==
    /\ ~component.isLoading
    /\ component.request = 0
    /\ chat[k].pc = "idle"
    /\ \A j \in ChatIds : j < k => chat[j].pc # "idle"
    /\ component' = [component EXCEPT
          !.isLoading = TRUE, !.request = k, !.reading = FALSE,
          !.carried = component.conversationId,
          !.session = Append(@, [request |-> k, carried |-> component.conversationId])]
    /\ UNCHANGED ServerVars

\* the POST of the running handleSubmit arrives at the route
ComponentFetch(k, text) ==
    /\ component.request = k
    /\ ChatRequest(k, "alice", "valid", "ok", text, component.carried, FALSE, NoProject)

\* the response has arrived: a status other than 2xx throws and the finally
\* block resets isLoading; otherwise the X-Conversation-Id header is stored if
\* the conversationId of the closure is undefined, and the stream is read
HandleResponse(k) ==
    /\ component.request = k
    /\ ~component.reading
    /\ chat[k].status # 0
    /\ component' =
          IF chat[k].status # 200
          THEN [component EXCEPT !.isLoading = FALSE, !.request = 0]
          ELSE [component EXCEPT
                  !.reading = TRUE,
                  !.conversationId = IF component.carried = NoConversation
                                     THEN chat[k].conversationId ELSE @]
    /\ UNCHANGED ServerVars

\* reader.read() returns done: the finally block resets isLoading
HandleStreamEnd(k) ==
    /\ component.request = k
    /\ component.reading
    /\ chat[k].pc = "done"
    /\ component' = [component EXCEPT !.isLoading = FALSE, !.request = 0,
                                      !.reading = FALSE]
    /\ UNCHANGED ServerVars

\* handleCancel: the abort ends the running handleSubmit with an AbortError
HandleCancel ==
    /\ component.isLoading
    /\ component.request # 0
    /\ chat[component.request].pc # "idle"
    /\ component' = [component EXCEPT !.isLoading = FALSE, !.request = 0,
                                      !.reading = FALSE]
    /\ UNCHANGED ServerVars

\* handleNewChat: setMessages([]) and setConversationId(undefined)
HandleNewChat ==
    /\ component.conversationId # NoConversation \/ component.session # <<>>
    /\ component' = [component EXCEPT !.conversationId = NoConversation,
                                      !.session = <<>>]
    /\ UNCHANGED ServerVars

ComponentSteps ==
    \/ \E k \in ChatIds, text \in ChatTexts : ComponentFetch(k, text)
    \/ \E k \in ChatIds : HandleResponse(k)
    \/ \E k \in ChatIds : HandleStreamEnd(k)
    \/ HandleCancel
    \/ HandleNewChat

NextComponent ==
    \/ \E k \in ChatIds : HandleSubmit(k)
    \/ ComponentSteps
    \/ HistorySteps

SpecComponent == ChatInit /\ [][NextComponent]_vars

----------------------------------------------------------------------------
(* The body specification: the document specification with upload bodies    *)
(* of every kind.                                                           *)

BodyUpload ==
    /\ Started < MaxRequests
    /\ \E d \in DocIds, body \in UploadBodies, text \in Contents :
          UploadRequest(d, "alice", "valid", body, NoProject, text)

NextBody ==
    \/ BodyUpload \/ DocReindex \/ DocDelete
    \/ UploadSteps \/ TaskSteps \/ ReindexSteps \/ DeleteSteps

SpecBody == Init /\ [][NextBody]_vars

----------------------------------------------------------------------------
(* The session specification: requests of one user to every route of the    *)
(* project variant, with and without a valid session, and the steps the     *)
(* accepted ones go on with.                                                *)

SessionInit == Init /\ env.variant = "hono"

SessionStarted ==
    Started
    + Cardinality({k \in ProjectRequestIds : projects[k].pc # "idle"})
    + Cardinality({k \in ChatIds : chat[k].pc # "idle"})
    + Cardinality({k \in ReadIds : read[k].pc # "idle"})

DocumentRequest(session) ==
    \/ \E d \in DocIds, text \in Contents :
          UploadRequest(d, "alice", session, "ok", NoProject, text)
    \/ \E k \in ReindexIds, d \in DocIds :
          ReindexRequest(k, "alice", session, "ok", d)
    \/ \E k \in DeleteIds, d \in DocIds :
          DeleteRequest(k, "alice", session, TRUE, d)
    \/ \E k \in ReadIds, d \in {0} \cup DocIds :
          ReadRequest(k, "documents", "alice", session, NoConversation, d)

ProjectsRequest(session) ==
    \/ \E k \in ProjectRequestIds : ProjectCreate(k, "alice", session, "ok")
    \/ \E k \in ProjectRequestIds, p \in DOMAIN project :
          ProjectUpdateRequest(k, "alice", session, TRUE, "ok", p)
    \/ \E k \in ProjectRequestIds, p \in DOMAIN project :
          ProjectDeleteRequest(k, "alice", session, TRUE, p)
    \/ \E k \in ProjectRequestIds : EnsureDefaultRequest(k, "alice", session)
    \/ \E k \in ReadIds :
          ReadRequest(k, "projects", "alice", session, NoConversation, 0)

ChatApiRequest(session) ==
    \/ /\ ChatStarted < MaxChats
       /\ \E k \in ChatIds, text \in ChatTexts, c \in {NoConversation} \cup NamedConversations :
             ChatRequest(k, "alice", session, "ok", text, c, TRUE, NoProject)
    \/ \E k \in ReadIds, c \in {NoConversation} \cup NamedConversations :
          ReadRequest(k, "chat", "alice", session, c, 0)

SessionRequest ==
    /\ SessionStarted < MaxRequests
    /\ \E session \in Sessions :
          DocumentRequest(session) \/ ProjectsRequest(session) \/ ChatApiRequest(session)

NextSession ==
    \/ SessionRequest
    \/ UploadSteps \/ PipelineSteps \/ ReindexSteps \/ DeleteSteps
    \/ ProjectSteps \/ ChatSteps
    \/ \E k \in ReadIds : ReadMessages(k)

SpecSession == SessionInit /\ [][NextSession]_vars

----------------------------------------------------------------------------
(* Claims about the document lifecycle *)

Terminal == {"ready", "failed"}

\* every handler has answered and every background task has finished
Quiescent ==
    /\ \A d \in DocIds : upload[d].pc \in {"idle", "done"}
    /\ \A k \in ReindexIds : reindex[k].pc \in {"idle", "done"}
    /\ \A k \in DeleteIds : del[k].pc \in {"idle", "done"}
    /\ \A t \in TaskIds : task[t].pc \in {"idle", "done"}

\* the step of a re-index request that resets the status of document d
ReindexResets(d) ==
    \E k \in ReindexIds :
        /\ reindex[k].pc = "set_processing"
        /\ reindex'[k].pc = "done"
        /\ reindex[k].doc = d

\* C1: a document's status is `processing` right after upload and changes only
\* from `processing` to `ready` or `failed`; a terminal status changes again
\* only in the step of a re-index request, which resets it to `processing`.
C1_StatusChangesOnlyForward ==
    [][/\ \A d \in DOMAIN document' \ DOMAIN document :
             document'[d].status = "processing"
       /\ \A d \in DOMAIN document \cap DOMAIN document' :
             document'[d].status # document[d].status =>
                \/ /\ document[d].status = "processing"
                   /\ document'[d].status \in Terminal
                \/ /\ document[d].status \in Terminal
                   /\ document'[d].status = "processing"
                   /\ ReindexResets(d)]_vars

C3_NoOrphanVectors ==
    \A k \in DeleteIds :
        (/\ del[k].pc = "done" /\ del[k].status = 200
         /\ Quiescent
         /\ \A j \in DeleteIds : ~del[j].threw
         /\ \A j \in ReindexIds : ~reindex[j].threw)
        => \A v \in DOMAIN VECTOR_INDEX : VECTOR_INDEX[v].documentId # del[k].doc

\* the delete requests that named an existing document of the caller
Deleting(k) == del[k].doc # 0

\* the handler of request k has read the chunk rows and is past the vector delete
PastVectorDelete(k) == Deleting(k) /\ del[k].pc \in {"delete_row", "done"}

\* C8 as stated: a delete that read N chunk rows has issued, before it removes
\* the document row, one vector-delete request naming N vector ids.
C8_OneRequestPerChunkRows ==
    \A k \in DeleteIds :
        (PastVectorDelete(k) /\ del[k].rows # {}) =>
           /\ Len(del[k].calls) = 1
           /\ Cardinality(del[k].calls[1]) = Cardinality(del[k].rows)

\* the non-null vector ids of the chunk rows request k read
NonNullVectorIds(k) == {r.vectorId : r \in del[k].rows} \ {NoVector}

\* C8 amended: before it removes the document row, a delete has issued exactly
\* one vector-delete request, naming exactly the non-null vector ids of the
\* chunk rows it read, when there is such an id, and no request when there is
\* none; nothing is issued before the rows are read.
C8_OneRequestForNonNullIds ==
    \A k \in DeleteIds :
        /\ PastVectorDelete(k) =>
              del[k].calls = IF NonNullVectorIds(k) = {} THEN <<>>
                             ELSE <<NonNullVectorIds(k)>>
        /\ del[k].pc \in {"idle", "chunks", "delete_vectors"} => del[k].calls = <<>>

\* C8 witness: a delete of a document with three chunk rows is about to remove
\* the row and has issued its one request for the three vectors
C8_Witness ==
    \E k \in DeleteIds :
        /\ del[k].pc = "delete_row"
        /\ Cardinality(del[k].rows) = 3
        /\ Len(del[k].calls) = 1
        /\ Cardinality(del[k].calls[1]) = 3
        /\ del[k].doc \in DOMAIN document

\* C9: a delete request of the owner for an existing document ends with the
\* document row and all its chunk rows removed and reports success, also when
\* the vector-delete call threw.
C9_DeleteSucceeds ==
    \A k \in DeleteIds :
        (Deleting(k) /\ del[k].pc = "done") =>
           /\ del[k].status = 200
           /\ del[k].doc \notin DOMAIN document
           /\ ChunksOf(del[k].doc) = {}

\* C9 witness: the vector-delete call threw and the delete reported success
C9_Witness ==
    \E k \in DeleteIds :
        /\ del[k].pc = "done"
        /\ del[k].threw
        /\ del[k].status = 200
        /\ del[k].rows # {}

\* document d is stored with the status `processing`
Processing(d) == d \in DOMAIN document /\ document[d].status = "processing"

\* C18: every document that is `processing` eventually leaves that status, for
\* `ready` or `failed` (or is deleted), when every started handler and task
\* keeps taking steps and every remote call returns or throws.
C18_LeavesProcessing ==
    \A d \in DocIds : Processing(d) ~> ~Processing(d)

----------------------------------------------------------------------------
(* Claims about projects *)

\* C4: each user has at most one default project, and a document uploaded
\* without an explicit project is attached to it.
C4_OneDefaultProject ==
    /\ \A u \in Users : Cardinality(DefaultProjects(u)) <= 1
    /\ env.variant = "hono" =>
          \A d \in DOMAIN document :
             upload[d].named = NoProject =>
                document[d].projectId \in DefaultProjects(document[d].userId)

----------------------------------------------------------------------------
(* Claims about chat *)

\* the documents of user u
DocumentsOf(u) == {d \in DOMAIN document : document[d].userId = u}

\* C5: the contexts retrieved for a chat request come only from documents
\* owned by the user who sent it.
C5_ContextsFromOwnDocuments ==
    \A k \in ChatIds :
        \A x \in chat[k].contexts : x.documentId \in DocumentsOf(chat[k].userId)

\* request k has reached the call of the chat model
ModelCalled(k) == chat[k].pc = "model" \/ "chat" \in chat[k].services

\* request k has asked the embedding model or the vector index for contexts
Retrieved(k) == chat[k].services \cap {"embedding", "vector"} # {}

\* C6: by the time the chat model is called, a request that carries a project
\* reference has performed retrieval, whatever its useRag flag, and holds
\* contexts of documents of that project only; a request without a project
\* reference has performed no retrieval.
C6_ProjectImpliesRetrieval ==
    \A k \in ChatIds :
        ModelCalled(k) =>
           IF chat[k].projectId # NoProject
           THEN /\ Retrieved(k)
                /\ \A x \in chat[k].contexts :
                      /\ x.documentId \in DOMAIN document
                      /\ document[x.documentId].projectId = chat[k].projectId
           ELSE ~Retrieved(k)

\* request k carried no conversation id: it drew the id of its conversation
Created(k) == chat[k].conversationId = ConversationId(k)

\* C10: a chat request without a conversation id has inserted one conversation,
\* owned by its sender and titled with the first 50 characters of the message,
\* and when the chat model is called it has inserted exactly one message, the
\* user message, into that conversation.
C10_ConversationAndUserMessage ==
    \A k \in ChatIds :
        Created(k) =>
           /\ {c \in DOMAIN conversation : c.req = k} = {ConversationId(k)}
           /\ conversation[ConversationId(k)].userId = chat[k].userId
           /\ conversation[ConversationId(k)].title = <<0, Min(chat[k].message, 50)>>
           /\ ModelCalled(k) /\ chat[k].pc # "done" =>
                 /\ {m \in DOMAIN message : m.req = k} = {MessageId(k, "user")}
                 /\ message[MessageId(k, "user")] \in
                       [conversationId : {ConversationId(k)}, role : {"user"},
                        content : {chat[k].message}, createdAt : Nat, rowid : Nat]

\* C10 witness: the chat model is about to be called for a message of 51
\* characters sent without a conversation id; the title has 50
C10_Witness ==
    \E k \in ChatIds :
        /\ Created(k)
        /\ chat[k].pc = "model"
        /\ chat[k].message = 51
        /\ conversation[ConversationId(k)].title = <<0, 50>>
        /\ MessageId(k, "user") \in DOMAIN message

\* the messages request k has inserted
Inserted(k) == {m \in DOMAIN message : m.req = k}

\* C11: the user message of a chat request is stored before the chat model is
\* called and its assistant message is inserted only by the step that ends a
\* fully relayed stream: whenever the assistant message is stored, the user
\* message is stored and the model answered; a request whose model call failed
\* or whose stream was cancelled keeps its user message and has no assistant
\* message, then and ever after.
C11_UserBeforeAssistant ==
    [][\A k \in ChatIds :
          /\ ModelCalled(k) /\ chat[k].conversationId \in DOMAIN conversation =>
                MessageId(k, "user") \in DOMAIN message
          /\ MessageId(k, "assistant") \in DOMAIN message' =>
                /\ MessageId(k, "user") \in DOMAIN message
                /\ chat'[k].pc = "done" /\ chat'[k].status = 200
          /\ MessageId(k, "assistant") \in DOMAIN message' \ DOMAIN message =>
                chat[k].pc = "stream"
          /\ (chat[k].pc = "model" /\ chat'[k].pc = "done") =>
                /\ chat'[k].status = 500
                /\ Inserted(k)' = {MessageId(k, "user")}
          /\ chat[k].pc = "done" =>
                \A m \in Inserted(k) \cup Inserted(k)' :
                   m \in DOMAIN message /\ m \in DOMAIN message' /\ message'[m] = message[m]]_vars

\* C11 witness: a stream that was opened ended without flush(): the request is
\* over with its user message stored and no assistant message
C11_Witness ==
    \E k \in ChatIds :
        /\ chat[k].pc = "done"
        /\ chat[k].status = 200
        /\ Inserted(k) = {MessageId(k, "user")}

\* the messages of conversation c in the order they were inserted
Persisted(c) ==
    LET S == MessagesOf(c) IN
    [i \in 1..Cardinality(S) |->
        CHOOSE m \in S :
           Cardinality({x \in S : message[x].rowid < message[m].rowid}) = i - 1]

\* the last n elements of the sequence s
Last(s, n) == SubSeq(s, Len(s) - Min(n, Len(s)) + 1, Len(s))

\* C12: the message list built for the chat model is the last 10 messages
\* stored in the conversation, or all of them when there are fewer, in the
\* order they were stored, followed by the new user message, once and last.
C12_LastTenOldestFirst ==
    [][\A k \in ChatIds :
          (chat[k].pc = "history" /\ chat'[k].pc = "save_user") =>
             LET previous == Last(Persisted(chat[k].conversationId), HISTORY_LIMIT) IN
             chat'[k].chatMessages =
                Append([i \in 1..Len(previous) |->
                           [role |-> message[previous[i]].role,
                            content |-> message[previous[i]].content]],
                       [role |-> "user", content |-> chat[k].message])]_vars

\* C13 as stated: a chat request during which the embedding service, the
\* vector store or the chat model failed is answered with 500 and the error
\* "Failed to generate response".
C13_AnyFailureGives500 ==
    \A k \in ChatIds :
        (chat[k].pc = "done" /\ chat[k].failed # {}) =>
           chat[k].status = 500 /\ chat[k].error = "Failed to generate response"

\* C13 amended: a failure of the chat model is answered with 500 and the error
\* "Failed to generate response" and nothing else; a failure of the embedding
\* service or of the vector store is swallowed: the request goes on to the chat
\* model with the base prompt and no contexts, and is answered by the stream
\* when the model answers.
C13_OnlyModelFailureGives500 ==
    \A k \in ChatIds :
        /\ "chat" \in chat[k].failed =>
              /\ chat[k].pc = "done"
              /\ chat[k].status = 500
              /\ chat[k].error = "Failed to generate response"
        /\ chat[k].failed \cap {"embedding", "vector"} # {} =>
              /\ ModelCalled(k)
              /\ chat[k].systemPrompt = "base" /\ chat[k].contexts = {}
              /\ ("chat" \in chat[k].services /\ "chat" \notin chat[k].failed) =>
                    chat[k].status = 200 /\ chat[k].error = ""
        /\ chat[k].error = "Failed to generate response" => "chat" \in chat[k].failed

\* C13 witness: the embedding call of a request failed, the chat model
\* answered, and the reply was streamed and stored
C13_Witness ==
    \E k \in ChatIds :
        /\ "embedding" \in chat[k].failed
        /\ chat[k].pc = "done"
        /\ chat[k].status = 200
        /\ MessageId(k, "assistant") \in DOMAIN message

\* request k named a conversation that does not exist or is not its sender's
Foreign(k) ==
    /\ chat[k].pc # "idle"
    /\ chat[k].conversationId # NoConversation
    /\ \/ chat[k].conversationId \notin DOMAIN conversation
       \/ conversation[chat[k].conversationId].userId # chat[k].userId

\* C20: a chat request that names a conversation which does not exist or
\* belongs to another user reads no message of it into the model input and
\* appends no message to it.
C20_OwnConversationOnly ==
    \A k \in ChatIds :
        Foreign(k) =>
           /\ \A i \in 1..Len(chat[k].chatMessages) :
                 chat[k].chatMessages[i] = [role |-> "user", content |-> chat[k].message]
           /\ Inserted(k) = {}

----------------------------------------------------------------------------
(* Claims about chunkText *)

\* chunkText has returned
Returned == fn.name = "chunkText" /\ fn.pc = "done"

\* the distance between the starts of consecutive chunks
Stride == fn.chunkSize - fn.overlap

\* the length of the slice <<from, to>>
Length(slice) == slice[2] - slice[1]

\* chunk i (counted from 0) is the substring from i*(C-O) to min(i*(C-O)+C, N)
ChunkAt(i) == <<i * Stride, Min(i * Stride + fn.chunkSize, fn.text)>>

C15_ShortTextOneChunk ==
    (Returned /\ 0 < fn.text /\ fn.text < fn.chunkSize) =>
       fn.chunks = <<(<<0, fn.text>>)>>

\* C16: the chunks jointly cover the text without a gap: the first starts at 0,
\* each later one starts at or before the end of the one before it, and the
\* last one ends at N.
C16_ChunksCoverText ==
    (Returned /\ fn.text > 0) =>
       /\ fn.chunks # <<>>
       /\ fn.chunks[1][1] = 0
       /\ \A i \in 2..Len(fn.chunks) : fn.chunks[i][1] <= fn.chunks[i - 1][2]
       /\ fn.chunks[Len(fn.chunks)][2] = fn.text
       /\ \A x \in 0..(fn.text - 1) :
             \E i \in 1..Len(fn.chunks) : fn.chunks[i][1] <= x /\ x < fn.chunks[i][2]

\* C16 witness: a text of several chunks without overlap has been chunked
C16_Witness ==
    /\ Returned
    /\ fn.overlap = 0
    /\ Len(fn.chunks) >= 3
    /\ fn.text % fn.chunkSize # 0

\* C17: for 0 <= overlap < chunkSize chunkText returns, with a finite sequence
\* of chunks, and with the empty sequence for the empty text.
C17_ChunkTextTerminates ==
    /\ <>Returned
    /\ [](Returned => Len(fn.chunks) <= fn.text)
    /\ []((Returned /\ fn.text = 0) => fn.chunks = <<>>)

\* C17 witness: chunkText has returned the empty sequence for the empty text
C17_Witness ==
    /\ Returned
    /\ fn.text = 0
    /\ fn.chunks = <<>>
    /\ fn.overlap = fn.chunkSize - 1

----------------------------------------------------------------------------
(* Claims about generateEmbeddings *)

\* generateEmbeddings has returned
Embedded == fn.name = "generateEmbeddings" /\ fn.pc = "done"

----------------------------------------------------------------------------
(* Claims about sessions *)

\* the handler of request r returned 401 with the error "Unauthorized"
Rejected(r) == r.pc = "done" /\ r.status = 401 /\ r.error = "Unauthorized"

\* request r arrives in this step and does not present a valid session
ArrivesWithoutSession(r, rNext) ==
    r.pc = "idle" /\ rNext.pc # "idle" /\ rNext.session # "valid"

\* no row is inserted, updated or deleted, no vector is written or deleted and
\* no background task starts or moves
NoEffect == UNCHANGED <<project, document, documentChunk, conversation, message,
                        VECTOR_INDEX, task>>

\* C7: a request to the chat, documents or projects API without a valid session
\* is answered with 401 and the error "Unauthorized" in the step it arrives in,
\* which changes no row, no vector and no task and calls no service; a request
\* answered so takes no further step.
C7_NoSessionNoEffect ==
    [][/\ \A d \in DocIds :
             ArrivesWithoutSession(upload[d], upload'[d]) =>
                Rejected(upload'[d]) /\ NoEffect
       /\ \A k \in ReindexIds :
             ArrivesWithoutSession(reindex[k], reindex'[k]) =>
                Rejected(reindex'[k]) /\ ~reindex'[k].threw /\ NoEffect
       /\ \A k \in DeleteIds :
             ArrivesWithoutSession(del[k], del'[k]) =>
                Rejected(del'[k]) /\ del'[k].calls = <<>> /\ NoEffect
       /\ \A k \in ProjectRequestIds :
             ArrivesWithoutSession(projects[k], projects'[k]) =>
                Rejected(projects'[k]) /\ NoEffect
       /\ \A k \in ChatIds :
             ArrivesWithoutSession(chat[k], chat'[k]) =>
                Rejected(chat'[k]) /\ chat'[k].services = {} /\ NoEffect
       /\ \A k \in ReadIds :
             ArrivesWithoutSession(read[k], read'[k]) =>
                Rejected(read'[k]) /\ read'[k].rows = {} /\ NoEffect
       /\ \A d \in DocIds : Rejected(upload[d]) => upload'[d] = upload[d]
       /\ \A k \in ReindexIds : Rejected(reindex[k]) => reindex'[k] = reindex[k]
       /\ \A k \in DeleteIds : Rejected(del[k]) => del'[k] = del[k]
       /\ \A k \in ProjectRequestIds : Rejected(projects[k]) => projects'[k] = projects[k]
       /\ \A k \in ChatIds : Rejected(chat[k]) => chat'[k] = chat[k]
       /\ \A k \in ReadIds : Rejected(read[k]) => read'[k] = read[k]]_vars

\* C7 witness: a delete request without a session for a stored document has
\* been rejected, and the document and its vectors are still there
C7_Witness ==
    \E k \in DeleteIds, d \in DOMAIN document :
        /\ del[k].session = "none"
        /\ Rejected(del[k])
        /\ document[d].status = "ready"
        /\ \E v \in DOMAIN VECTOR_INDEX : VECTOR_INDEX[v].documentId = d

----------------------------------------------------------------------------
(* Claims about chunk rows and vectors *)

\* C21: the content of a chunk row that references a vector is the chunk that
\* was embedded and stored as the content of that vector, and is no longer
\* than the chunk size.
C21_RowContentIsChunk ==
    \A c \in DOMAIN documentChunk :
        documentChunk[c].vectorId # NoVector =>
           /\ Length(documentChunk[c].content) <= CHUNK_SIZE
           /\ documentChunk[c].vectorId \in DOMAIN VECTOR_INDEX =>
                 documentChunk[c].content =
                    VECTOR_INDEX[documentChunk[c].vectorId].content

\* C22 as stated: in the project variant, once an upload and the re-index
\* requests for its document have been answered and every background task has
\* finished, with no embedding call, vector upsert or vector delete failing,
\* the document is `ready`, has one chunk row per chunk of its content, and
\* the vector of every chunk row is in the vector store.
C22_ReindexConvergesUnlessServiceFails ==
    \A d \in DOMAIN document :
        (/\ env.variant = "hono"
         /\ Quiescent
         /\ upload[d].status = 201
         /\ \A k \in DeleteIds : del[k].pc = "idle"
         /\ \A t \in TaskIds : task[t].raised \notin {"embed", "upsert"}
         /\ \A k \in ReindexIds : ~reindex[k].threw)
        => /\ document[d].status = "ready"
           /\ Cardinality(ChunksOf(d)) =
                 Len(chunkText(document[d].content, CHUNK_SIZE, CHUNK_OVERLAP))
           /\ \A c \in ChunksOf(d) : documentChunk[c].vectorId \in DOMAIN VECTOR_INDEX

\* C22 restricted to behaviours in which no step of any task raised at all
\* (the insert of the chunk rows raises on a primary key that another task has
\* inserted): this form holds.
C22_ReindexConvergesUnlessRaised ==
    \A d \in DOMAIN document :
        (/\ env.variant = "hono"
         /\ Quiescent
         /\ upload[d].status = 201
         /\ \A k \in DeleteIds : del[k].pc = "idle"
         /\ \A t \in TaskIds : task[t].raised = "none"
         /\ \A k \in ReindexIds : ~reindex[k].threw)
        => /\ document[d].status = "ready"
           /\ Cardinality(ChunksOf(d)) =
                 Len(chunkText(document[d].content, CHUNK_SIZE, CHUNK_OVERLAP))
           /\ \A c \in ChunksOf(d) : documentChunk[c].vectorId \in DOMAIN VECTOR_INDEX

\* chunk row c names a vector of the store that carries the row's document
\* and chunk index
NamesItsVector(c) ==
    LET v == documentChunk[c].vectorId IN
    /\ v \in DOMAIN VECTOR_INDEX
    /\ VECTOR_INDEX[v].documentId = documentChunk[c].documentId
    /\ VECTOR_INDEX[v].chunkIndex = documentChunk[c].chunkIndex

\* C23: in every reachable state each chunk row with a non-null vectorId names
\* a vector that is in the vector store and carries the row's documentId and
\* chunkIndex.
C23_RowsNameStoredVectors ==
    \A c \in DOMAIN documentChunk :
        documentChunk[c].vectorId # NoVector => NamesItsVector(c)

----------------------------------------------------------------------------
(* Claims about ownership *)

\* the request of record r arrives in this step
Arrives(r, rNext) == r.pc = "idle" /\ rNext.pc # "idle"

\* user u does not own a document d
NotOwnDocument(u, d) == d \notin DOMAIN document \/ document[d].userId # u

\* user u does not own a project p
NotOwnProject(u, p) == p \notin DOMAIN project \/ project[p].userId # u

\* the handler answered 403 or 404 and will take no further step
Refused(r) == r.pc = "done" /\ r.status \in {403, 404}

\* no document row, chunk row, project row or vector changes
RowsUnchanged == UNCHANGED <<project, document, documentChunk, VECTOR_INDEX>>

\* C24: an authenticated delete, re-index, project update, project delete or
\* upload into a project that names a document or project its sender does not
\* own is answered with 403 or 404 in the step it arrives in, which changes no
\* document row, chunk row, project row or vector; a request answered so takes
\* no further step.
C24_NotOwnedIsRefused ==
    [][/\ \A k \in DeleteIds :
             (/\ Arrives(del[k], del'[k])
              /\ del'[k].userId # "" /\ del'[k].named # 0
              /\ NotOwnDocument(del'[k].userId, del'[k].named))
             => Refused(del'[k]) /\ RowsUnchanged
       /\ \A k \in ReindexIds :
             (/\ Arrives(reindex[k], reindex'[k])
              /\ reindex'[k].userId # "" /\ reindex'[k].named # 0
              /\ NotOwnDocument(reindex'[k].userId, reindex'[k].named))
             => Refused(reindex'[k]) /\ RowsUnchanged /\ UNCHANGED task
       /\ \A k \in ProjectRequestIds :
             (/\ Arrives(projects[k], projects'[k])
              /\ projects'[k].userId # "" /\ projects'[k].named # NoProject
              /\ NotOwnProject(projects'[k].userId, projects'[k].named))
             => Refused(projects'[k]) /\ RowsUnchanged
       /\ \A d \in DocIds :
             (/\ Arrives(upload[d], upload'[d])
              /\ upload'[d].userId # "" /\ upload'[d].named # NoProject
              /\ NotOwnProject(upload'[d].userId, upload'[d].named))
             => Refused(upload'[d]) /\ RowsUnchanged /\ UNCHANGED task
       /\ \A k \in DeleteIds : Refused(del[k]) => del'[k] = del[k]
       /\ \A k \in ReindexIds : Refused(reindex[k]) => reindex'[k] = reindex[k]
       /\ \A k \in ProjectRequestIds : Refused(projects[k]) => projects'[k] = projects[k]
       /\ \A d \in DocIds : Refused(upload[d]) => upload'[d] = upload[d]]_vars

\* C24 witness: a delete request for a stored document of another user has
\* been answered with 403, and the document and its vectors are still there
C24_Witness ==
    \E k \in DeleteIds :
        /\ del[k].status = 403
        /\ del[k].named \in DOMAIN document
        /\ document[del[k].named].userId # del[k].userId
        /\ \E v \in DOMAIN VECTOR_INDEX : VECTOR_INDEX[v].documentId = del[k].named


\* C25: in the project variant every document row has a non-null projectId
\* that names an existing project of the document's owner, after any
\* interleaving of uploads and project deletions.
C25_DocumentsInOwnProject ==
    env.variant = "hono" =>
       \A d \in DOMAIN document :
          /\ document[d].projectId # NoProject
          /\ document[d].projectId \in DOMAIN project
          /\ project[document[d].projectId].userId = document[d].userId

----------------------------------------------------------------------------
(* Claims about the response stream *)

RECURSIVE Concatenation(_)
\* the chunks of a sequence of chunks, one after the other
Concatenation(chunks) ==
    IF chunks = <<>> THEN <<>> ELSE Head(chunks) \o Concatenation(Tail(chunks))

\* the assistant messages persisted for request k
AssistantMessages(k) ==
    {m \in DOMAIN message : m.req = k /\ message[m].role = "assistant"}

C27_ReadInPersistedOrder ==
    \A k \in ReadIds :
        (read[k].api = "chat" /\ read[k].pc = "done" /\ read[k].status = 200) =>
           \A i, j \in 1..Len(read[k].messages) :
              i < j => message[read[k].messages[i]].rowid
                          < message[read[k].messages[j]].rowid

----------------------------------------------------------------------------
(* Claims about the Chat component *)

\* C28: every request of a chat session after the first carries the id of the
\* conversation the server created for the first request of the session.
C28_SessionKeepsConversation ==
    \A i \in 2..Len(component.session) :
        component.session[i].carried = ConversationId(component.session[1].request)

----------------------------------------------------------------------------
(* Claims about upload bodies *)

\* C29: an authenticated upload request whose body is not a well-formed upload
\* is answered with 400 in the step it arrives in, which inserts no document
\* row and starts no background task, and so calls no remote service.
C29_BadBodyGives400 ==
    [][\A d \in DocIds :
          (/\ Arrives(upload[d], upload'[d])
           /\ Authenticated(upload'[d].session)
           /\ upload'[d].body # "ok")
          => /\ upload'[d].pc = "done"
             /\ upload'[d].status = 400
             /\ UNCHANGED <<project, document, documentChunk, VECTOR_INDEX, task>>]_vars

----------------------------------------------------------------------------
(* Claims about the system prompt *)

\* the parts of a prompt that are of a kind, in order
PartsOf(prompt, kind) == SelectSeq(prompt, LAMBDA part : part.kind = kind)

\* C30: for zero contexts buildSystemPromptWithContext returns the base prompt
\* alone; for K >= 1 contexts the prompt begins with the base prompt and the
\* instruction, ends with the fallback instruction, and holds between them
\* exactly K blocks, labelled Document 1 to Document K, the i-th with the
\* content of the i-th context, whatever its score.
C30_PromptHoldsEveryContext ==
    (fn.name = "buildSystemPromptWithContext" /\ fn.pc = "done") =>
       LET K == Len(fn.contexts) IN
       IF K = 0
       THEN fn.result = <<Literal("basePrompt")>>
       ELSE /\ fn.result[1] = Literal("basePrompt")
            /\ fn.result[3] = Literal("Use the following context")
            /\ fn.result[Len(fn.result)] = Literal("If the context doesn't contain")
            /\ PartsOf(fn.result, "label") = [i \in 1..K |-> Label(i)]
            /\ PartsOf(fn.result, "content") =
                  [i \in 1..K |-> Content(fn.contexts[i].content)]
            /\ \A p \in 1..Len(fn.result) :
                  fn.result[p].kind = "label" =>
                     /\ p + 2 < Len(fn.result)
                     /\ fn.result[p + 1] = Literal("\n")
                     /\ fn.result[p + 2].kind = "content"

\* C30 witness: a prompt has been built from three contexts, one of them
\* with a low score and one with empty content
C30_Witness ==
    /\ fn.name = "buildSystemPromptWithContext" /\ fn.pc = "done"
    /\ Len(fn.contexts) = 3
    /\ \E i, j \in 1..3 : fn.contexts[i].score = 5 /\ fn.contexts[j].content = ""

====
